---- MODULE Spec2Model ----
(***************************************************************************)
(* Go-Round (Social-Post-Helper): the Autosave Controller (useAutoSave)    *)
(* and the capacity-constrained Storage Provider (LocalStorageProvider).   *)
(*                                                                         *)
(* The hook is a React function component hook.  A handler that sets React *)
(* state is followed by a re-render and a commit; the commit runs the      *)
(* clean-up of every effect whose dependencies changed, with the values    *)
(* the clean-up closed over at the previous commit.  The re-render follows *)
(* the handler within the same turn of the event loop, long before a       *)
(* debounce timer (2000 ms by default) can expire, so each action below    *)
(* is the handler together with the commit it causes.                      *)
(***************************************************************************)
EXTENDS Integers, Sequences, FiniteSets, TLC

(* ---------------------------------------------------------------- bounds *)

\* Project contents are numbered 1..MaxVer; each edit yields the next one.
MaxVer == 3

\* At most this many storage.saveProject calls are outstanding at once.
MaxInFlight == 2

\* "project === null"
NoProject == 0

\* The clock (Date.now()) runs over 0..MaxClock.
MaxClock == 1

\* The capacity of localStorage, in units of serialized size.
QuotaTotal == 4

\* The provider is followed over at most MaxOps calls.
MaxOps == 3

\* getStorage calls observed between two resets, and provider objects
\* constructed in a run.
MaxGets == 3
MaxInstances == 3

VARIABLES
    \* ---- useAutoSave: props
    mounted,            \* the component using the hook is mounted
    project,            \* the `project` argument: NoProject or a content version
    enabled,            \* options.enabled
    \* ---- useAutoSave: React state and refs
    saveStatus,         \* useState<SaveStatus>
    hasUnsavedChanges,  \* useState(false)
    timerRef,           \* timerRef.current: "null" or "handle"
    timerPending,       \* the timeout timerRef.current names has not fired nor been cleared
    projectRef,         \* projectRef.current
    isSavingRef,        \* isSavingRef.current
    \* ---- the Storage Provider as the hook sees it
    calls,              \* outstanding storage.saveProject calls, in submission order
    persisted,          \* content written by the last saveProject call that succeeded
    \* ---- observers (history variables; the program does not read them)
    last,               \* the last step: its operation, the callback it invoked, the calls it issued
    scn,                \* edits and calls counted since an edit that found the controller idle
    midSave,            \* an edit arrived during an in-flight save and no call has started since
    afterFail,          \* a controller save failed and no edit or manual save has followed
    \* ---- LocalStorageProvider: the keys of localStorage
    projects,           \* STORAGE_KEYS.PROJECTS, parsed: a sequence of Project
    layouts,            \* STORAGE_KEYS.CUSTOM_LAYOUTS, parsed: a sequence of CustomLayout
    fonts,              \* STORAGE_KEYS.CUSTOM_FONTS, parsed: a sequence of CustomFont
    now,                \* the clock: Date.now() and new Date()
    res,                \* observer: the last provider call and how it ended
    ops,                \* observer: the number of provider calls so far
    \* ---- LocalStorageProvider: font settings
    fontSettings,       \* STORAGE_KEYS.FONT_SETTINGS, parsed, or NoValue if the key is absent
    defaultSettings,    \* the module's DEFAULT_FONT_SETTINGS_VALUE object
    savedSettings,      \* observer: the value of the last saveFontSettings that succeeded
    fontLog,            \* observer: the last add or remove call naming each family
    \* ---- the main process (electron/main/ipc.ts)
    recentFile,         \* recent-projects.json: whether it exists, and its content parsed
    recentObs,          \* observer: the paths added since the last clear, and the requests made
    reply,              \* observer: the last request to the main process and its result
    recentAdds,         \* the recent:add handlers in progress: where each is, what it holds
    disk,               \* the file system: the directories and files below the root
    asked,              \* observer: what the last request met (picker answer, I/O outcome)
    requests,           \* observer: the number of file and export requests so far
    \* ---- the Document Codec (types/customLayout.ts) and its callers
    codec,              \* observer: the last codec call, its arguments and what it returned
    \* ---- the storage accessor (lib/storage/index.ts)
    storageProvider,    \* the module's storageProvider: NoValue (null) or a provider instance
    electronAPI,        \* window.electronAPI is present
    created,            \* observer: the number of provider instances constructed so far
    got                 \* observer: what the getStorage calls since the last reset returned

ctlVars == <<mounted, project, enabled, saveStatus, hasUnsavedChanges, timerRef,
             timerPending, projectRef, isSavingRef, calls, persisted>>
obsVars == <<last, scn, midSave, afterFail>>
storeVars == <<projects, layouts, fonts, now, res, ops>>
settingsVars == <<fontSettings, defaultSettings, savedSettings, fontLog>>
recentVars == <<recentFile, recentObs>>
diskVars == <<disk, asked, requests>>
raceVars == <<recentAdds>>
mainVars == <<recentVars, diskVars, reply, raceVars>>
codecVars == <<codec>>
accessVars == <<storageProvider, electronAPI, created, got>>
rendererVars == <<ctlVars, obsVars, storeVars, settingsVars, codecVars, accessVars>>
extVars == <<settingsVars, mainVars, codecVars, accessVars>>
vars == <<ctlVars, obsVars, storeVars, extVars>>

(* ------------------------------------------------- the hook's own state *)

\* The mutable part of the hook that its handlers read and write, as a record.
Cur ==
    [saveStatus |-> saveStatus, hasUnsavedChanges |-> hasUnsavedChanges,
     timerRef |-> timerRef, timerPending |-> timerPending,
     projectRef |-> projectRef, isSavingRef |-> isSavingRef,
     calls |-> calls, cb |-> "none"]

Set(c) ==
    /\ saveStatus' = c.saveStatus
    /\ hasUnsavedChanges' = c.hasUnsavedChanges
    /\ timerRef' = c.timerRef
    /\ timerPending' = c.timerPending
    /\ projectRef' = c.projectRef
    /\ isSavingRef' = c.isSavingRef
    /\ calls' = c.calls

\* storage.saveProject(projectRef.current): one more outstanding call.
\* src is "save" for the call save() awaits and "cleanup" for the one the
\* effect clean-up fires and forgets.
callSaveProject(c, src) ==
    [c EXCEPT !.calls = Append(@, [src |-> src, ver |-> c.projectRef])]

\* if (timerRef.current) clearTimeout(timerRef.current)
clearTimeout(c) ==
    IF c.timerRef # "null" THEN [c EXCEPT !.timerPending = FALSE] ELSE c

\* save(), up to its await.
save(c) ==
    IF c.projectRef = NoProject \/ c.isSavingRef
    THEN c
    ELSE callSaveProject([c EXCEPT !.isSavingRef = TRUE, !.saveStatus = "saving"], "save")

\* markChanged()
markChanged(c, en) ==
    IF ~en
    THEN c
    ELSE [clearTimeout(c) EXCEPT !.hasUnsavedChanges = TRUE,
                                 !.saveStatus = "unsaved",
                                 !.timerRef = "handle",
                                 !.timerPending = TRUE]

\* The clean-up returned by the effect with dependencies [hasUnsavedChanges];
\* `captured` is the hasUnsavedChanges of the render that created it.
unmountEffect(c, captured) ==
    LET c1 == clearTimeout(c) IN
    IF captured /\ c1.projectRef # NoProject THEN callSaveProject(c1, "cleanup") ELSE c1

\* The commit after a handler took the hook from `old` to `c`: the effect
\* with dependencies [hasUnsavedChanges] is re-run, its previous clean-up
\* first, exactly when hasUnsavedChanges differs from the last commit's.
commit(old, c) ==
    IF c.hasUnsavedChanges # old.hasUnsavedChanges
    THEN unmountEffect(c, old.hasUnsavedChanges)
    ELSE c

\* A render with a new `project` or `enabled`: the effect that keeps
\* projectRef, then the effect that watches the project, then the commit of
\* the state the latter set.
projectEffects(c, p, en) ==
    LET c1 == [c EXCEPT !.projectRef = p]
        isInitialRender == c1.projectRef = NoProject
        c2 == IF p = NoProject \/ ~en THEN c1
              ELSE IF isInitialRender THEN c1
              ELSE markChanged(c1, en)
    IN commit(c, c2)

\* saveNow()
saveNow(c) ==
    LET c1 == IF c.timerRef # "null"
              THEN [clearTimeout(c) EXCEPT !.timerRef = "null"]
              ELSE c
    IN save(c1)

\* saveSettled with a retry: the rejection re-arms the debounce timer.
saveSettledRetry(c, ok, isMounted) ==
    LET c1 == IF ok
              THEN [c EXCEPT !.saveStatus = IF isMounted THEN "saved" ELSE @,
                             !.hasUnsavedChanges = IF isMounted THEN FALSE ELSE @,
                             !.cb = "onSave"]
              ELSE [c EXCEPT !.saveStatus = IF isMounted THEN "error" ELSE @,
                             !.timerRef = "handle",
                             !.timerPending = TRUE,
                             !.cb = "onError"]
        c2 == [c1 EXCEPT !.isSavingRef = FALSE]
    IN IF isMounted THEN commit(c, c2) ELSE c2

\* The continuation of save() when the awaited call has settled.
saveSettled(c, ok, isMounted) ==
    LET c1 == IF ok
              THEN [c EXCEPT !.saveStatus = IF isMounted THEN "saved" ELSE @,
                             !.hasUnsavedChanges = IF isMounted THEN FALSE ELSE @,
                             !.cb = "onSave"]
              ELSE [c EXCEPT !.saveStatus = IF isMounted THEN "error" ELSE @,
                             !.cb = "onError"]
        c2 == [c1 EXCEPT !.isSavingRef = FALSE]
    IN IF isMounted THEN commit(c, c2) ELSE c2

\* The first render and its effects, for the props (p, en).
InitialState(p, en) ==
    LET c0 == [saveStatus |-> "saved", hasUnsavedChanges |-> FALSE,
               timerRef |-> "null", timerPending |-> FALSE,
               projectRef |-> p, isSavingRef |-> FALSE,
               calls |-> <<>>, cb |-> "none"]
    IN projectEffects(c0, p, en)

(* ------------------------------------------------------------ observers *)

NoScenario == [on |-> FALSE, edits |-> 0, fired |-> FALSE, calls |-> 0]

\* The controller is idle: enabled, a project loaded, status 'saved', no
\* debounce timer pending and no storage call outstanding.
Idle ==
    /\ mounted /\ enabled /\ project # NoProject
    /\ saveStatus = "saved" /\ ~isSavingRef /\ ~timerPending /\ calls = <<>>

\* The number of calls a step issued that took the outstanding calls from
\* `before` (with `settled` of them settling in the step) to `after`.
Issued(before, settled, after) == Len(after) - (Len(before) - settled)

Min(a, b) == IF a < b THEN a ELSE b

\* scn after an edit (markChanged or a change of the project value).
ScnOnEdit ==
    IF Idle THEN [on |-> TRUE, edits |-> 1, fired |-> FALSE, calls |-> 0]
    ELSE IF scn.on /\ scn.edits = 1 /\ ~scn.fired /\ scn.calls = 0
         THEN [scn EXCEPT !.edits = 2]
         ELSE NoScenario

\* scn after a step that is neither an edit, a manual save nor a teardown.
ScnOnStep(fired, n) ==
    IF scn.on
    THEN [scn EXCEPT !.fired = @ \/ fired, !.calls = Min(@ + n, 3)]
    ELSE scn

Observe(op, c, n, scn1, midSave1, afterFail1) ==
    /\ last' = [op |-> op, cb |-> c.cb, issued |-> n]
    /\ scn' = scn1
    /\ midSave' = (IF n > 0 THEN FALSE ELSE midSave1)
    /\ afterFail' = afterFail1
    /\ UNCHANGED <<storeVars, extVars>>

(* ---------------------------------------------------------------- actions *)

\* The `project` prop changes to a new value (the user edited the project).
EditProject ==
    /\ mounted /\ project # NoProject /\ project < MaxVer
    /\ LET c == projectEffects(Cur, project + 1, enabled) IN
       /\ project' = project + 1
       /\ Set(c)
       /\ UNCHANGED <<mounted, enabled, persisted>>
       /\ Observe("edit", c, Issued(calls, 0, c.calls), ScnOnEdit,
                  enabled /\ isSavingRef, "no")

\* A project is loaded into a hook mounted without one.
LoadProject ==
    /\ mounted /\ project = NoProject
    /\ LET c == projectEffects(Cur, 1, enabled) IN
       /\ project' = 1
       /\ persisted' = 1
       /\ Set(c)
       /\ UNCHANGED <<mounted, enabled>>
       /\ Observe("load", c, Issued(calls, 0, c.calls), NoScenario, FALSE, "no")

\* The caller invokes the returned markChanged().
MarkChanged ==
    /\ mounted
    /\ LET c == commit(Cur, markChanged(Cur, enabled)) IN
       /\ Set(c)
       /\ UNCHANGED <<mounted, project, enabled, persisted>>
       /\ Observe("markChanged", c, Issued(calls, 0, c.calls), ScnOnEdit,
                  enabled /\ isSavingRef, "no")

\* options.enabled changes.
SetEnabled ==
    /\ mounted
    /\ LET c == projectEffects(Cur, project, ~enabled) IN
       /\ enabled' = ~enabled
       /\ Set(c)
       /\ UNCHANGED <<mounted, project, persisted>>
       /\ Observe("setEnabled", c, Issued(calls, 0, c.calls), NoScenario, FALSE, "no")

\* saveNow(), from the caller or from Cmd/Ctrl+S.
SaveNow ==
    /\ mounted
    /\ LET c == commit(Cur, saveNow(Cur)) IN
       /\ Len(c.calls) <= MaxInFlight
       /\ Set(c)
       /\ UNCHANGED <<mounted, project, enabled, persisted>>
       /\ Observe("saveNow", c, Issued(calls, 0, c.calls), NoScenario, FALSE, "no")

\* The debounce timer expires: its callback runs save().
TimerFire ==
    /\ timerPending
    /\ LET c == commit(Cur, save([Cur EXCEPT !.timerPending = FALSE])) IN
       /\ Len(c.calls) <= MaxInFlight
       /\ Set(c)
       /\ UNCHANGED <<mounted, project, enabled, persisted>>
       /\ Observe("timer", c, Issued(calls, 0, c.calls),
                  ScnOnStep(TRUE, Issued(calls, 0, c.calls)), midSave, afterFail)

\* The component unmounts: the effect clean-ups run.
Unmount ==
    /\ mounted
    /\ LET c == unmountEffect(Cur, hasUnsavedChanges) IN
       /\ Len(c.calls) <= MaxInFlight
       /\ mounted' = FALSE
       /\ Set(c)
       /\ UNCHANGED <<project, enabled, persisted>>
       /\ Observe("unmount", c, Issued(calls, 0, c.calls), NoScenario, FALSE, "no")

RemoveAt(s, i) == SubSeq(s, 1, i - 1) \o SubSeq(s, i + 1, Len(s))

\* The i-th outstanding storage.saveProject call settles, fulfilled (ok) or
\* rejected.  The call save() awaits resumes save(); the call of the
\* effect clean-up only has its rejection logged (.catch(console.error)).
Settle(i, ok) ==
    LET call == calls[i]
        c0 == [Cur EXCEPT !.calls = RemoveAt(calls, i)]
        c == IF call.src = "save" THEN saveSettled(c0, ok, mounted) ELSE c0
        n == Issued(calls, 1, c.calls)
        op == (IF call.src = "save" THEN "save" ELSE "bg") \o (IF ok THEN "Ok" ELSE "Fail")
    IN
    /\ persisted' = (IF ok THEN call.ver ELSE persisted)
    /\ Set(c)
    /\ UNCHANGED <<mounted, project, enabled>>
    /\ Observe(op, c, n, ScnOnStep(FALSE, n), midSave,
               IF call.src = "save" /\ mounted
               THEN (IF ok THEN "no" ELSE IF timerPending THEN "timer" ELSE "quiet")
               ELSE afterFail)

SettleOk == \E i \in 1..Len(calls) : Settle(i, TRUE)

SettleFail == \E i \in 1..Len(calls) : Settle(i, FALSE)

\* The hook after its first render, for any props.
InitAutoSave ==
    \E p \in {NoProject, 1}, en \in BOOLEAN :
        LET c == InitialState(p, en) IN
        /\ mounted = TRUE
        /\ project = p
        /\ enabled = en
        /\ saveStatus = c.saveStatus
        /\ hasUnsavedChanges = c.hasUnsavedChanges
        /\ timerRef = c.timerRef
        /\ timerPending = c.timerPending
        /\ projectRef = c.projectRef
        /\ isSavingRef = c.isSavingRef
        /\ calls = c.calls
        /\ persisted = p
        /\ last = [op |-> "mount", cb |-> "none", issued |-> Len(c.calls)]
        /\ scn = NoScenario
        /\ midSave = FALSE
        /\ afterFail = "no"

NextAutoSave ==
    \/ EditProject
    \/ LoadProject
    \/ MarkChanged
    \/ SetEnabled
    \/ SaveNow
    \/ TimerFire
    \/ Unmount
    \/ SettleOk
    \/ SettleFail

(* ------------------------------------------------- LocalStorageProvider *)

\* An entity serializes to one unit plus one unit per element of its
\* content: the carousels of a project, the units of text of a template,
\* the units of data of a font. The field that holds each entity's content.
Carousels == "carousels"
HtmlTemplate == "htmlTemplate"
Base64Data == "base64Data"

\* storageUtils.estimateDataSize: the serialized size of a whole collection.
estimateDataSize(items, content) ==
    LET size[i \in 0..Len(items)] ==
            IF i = 0 THEN 0 ELSE size[i - 1] + 1 + Len(items[i][content])
    IN size[Len(items)]

\* null: what a lookup finds when nothing is stored.
NoValue == [none |-> TRUE]

\* The serialized size of the font settings record: one unit plus one per
\* entry of googleFonts; nothing while the key is absent.
SettingsSize(settings) ==
    IF settings = NoValue THEN 0 ELSE 1 + Len(settings.googleFonts)

\* storageUtils.getStorageQuota: what the keys of localStorage take together.
getStorageQuota(st) ==
    LET used == estimateDataSize(st.projects, Carousels)
                + estimateDataSize(st.layouts, HtmlTemplate)
                + estimateDataSize(st.fonts, Base64Data)
                + SettingsSize(st.fontSettings)
    IN [used |-> used, total |-> QuotaTotal, available |-> QuotaTotal - used]

\* storageUtils.hasEnoughSpace
hasEnoughSpace(st, dataSize) == dataSize <= getStorageQuota(st).available

\* What st[key] takes now.
KeySize(st, key) ==
    CASE key = "projects" -> estimateDataSize(st.projects, Carousels)
      [] key = "layouts" -> estimateDataSize(st.layouts, HtmlTemplate)
      [] key = "fonts" -> estimateDataSize(st.fonts, Base64Data)
      [] key = "fontSettings" -> SettingsSize(st.fontSettings)

\* storageUtils.safeSetItem over localStorage.setItem: the value replaces
\* the key's old value if the store then holds at most its capacity, and
\* the write throws, leaving the key as it was, otherwise.
safeSetItem(st, key, items, newSize) ==
    IF getStorageQuota(st).used - KeySize(st, key) + newSize <= QuotaTotal
    THEN [st |-> [st EXCEPT ![key] = items], status |-> "ok"]
    ELSE [st |-> st, status |-> "thrown"]

\* Array.prototype.findIndex on the id, 1-based; 0 for JavaScript's -1.
findIndex(items, id) ==
    IF \E i \in 1..Len(items) : items[i].id = id
    THEN CHOOSE i \in 1..Len(items) :
            items[i].id = id /\ \A j \in 1..(i - 1) : items[j].id # id
    ELSE 0

\* items.filter((x) => x.id !== id)
RECURSIVE filterOut(_, _)
filterOut(items, id) ==
    IF items = <<>> THEN <<>>
    ELSE IF Head(items).id = id THEN filterOut(Tail(items), id)
    ELSE <<Head(items)>> \o filterOut(Tail(items), id)

\* if (index >= 0) items[index] = x; else items.push(x)
upsert(items, x) ==
    LET index == findIndex(items, x.id) IN
    IF index > 0 THEN [items EXCEPT ![index] = x] ELSE Append(items, x)

\* getProject(id): the first project with that id, or null.
getProject(st, id) ==
    LET index == findIndex(st.projects, id) IN
    IF index > 0 THEN st.projects[index] ELSE NoValue

\* saveProject with the quota check after the write.
saveProjectWriteFirst(st, p, t) ==
    LET p1 == [p EXCEPT !.modifiedAt = t]
        all == upsert(st.projects, p1)
        dataSize == estimateDataSize(all, Carousels)
        w == safeSetItem(st, "projects", all, dataSize)
    IN IF ~hasEnoughSpace(st, dataSize)
       THEN [st |-> w.st, status |-> "QuotaExceeded", value |-> p1]
       ELSE [st |-> w.st, status |-> w.status, value |-> p1]

\* saveProject that always pushes.
saveProjectPush(st, p, t) ==
    LET p1 == [p EXCEPT !.modifiedAt = t]
        all == Append(st.projects, p1)
        dataSize == estimateDataSize(all, Carousels)
    IN IF ~hasEnoughSpace(st, dataSize)
       THEN [st |-> st, status |-> "QuotaExceeded", value |-> p1]
       ELSE LET w == safeSetItem(st, "projects", all, dataSize) IN
            [st |-> w.st, status |-> w.status, value |-> p1]

\* saveProject that persists the modifiedAt the caller passed.
saveProjectKeepStamp(st, p, t) ==
    LET all == upsert(st.projects, p)
        dataSize == estimateDataSize(all, Carousels)
    IN IF ~hasEnoughSpace(st, dataSize)
       THEN [st |-> st, status |-> "QuotaExceeded", value |-> p]
       ELSE LET w == safeSetItem(st, "projects", all, dataSize) IN
            [st |-> w.st, status |-> w.status, value |-> p]

\* saveProject(project) at time t.
saveProject(st, p, t) ==
    LET p1 == [p EXCEPT !.modifiedAt = t]
        all == upsert(st.projects, p1)
        dataSize == estimateDataSize(all, Carousels)
    IN IF ~hasEnoughSpace(st, dataSize)
       THEN [st |-> st, status |-> "QuotaExceeded", value |-> p1]
       ELSE LET w == safeSetItem(st, "projects", all, dataSize) IN
            [st |-> w.st, status |-> w.status, value |-> p1]

\* deleteProject that writes an empty collection.
deleteProjectAll(st, id) ==
    [st |-> [st EXCEPT !.projects = <<>>], status |-> "ok", value |-> NoValue]

\* deleteProject(id): localStorage.setItem of the filtered collection.
deleteProject(st, id) ==
    [st |-> [st EXCEPT !.projects = filterOut(@, id)], status |-> "ok", value |-> NoValue]

\* duplicateProject(id) at time t: the id `${id}-copy-${t}`.
duplicateProject(st, id, t) ==
    LET source == getProject(st, id) IN
    IF source = NoValue
    THEN [st |-> st, status |-> "NotFound", value |-> NoValue]
    ELSE saveProject(st, [source EXCEPT !.id = Append(@, t),
                                        !.name = @ \o " (Copy)",
                                        !.createdAt = t,
                                        !.modifiedAt = t], t)

\* p.description, undefined for a project that has none.
descriptionOf(p) == IF "description" \in DOMAIN p THEN p.description ELSE NoValue

\* p.carousels.reduce((sum, c) => sum + c.slides.length, 0)
RECURSIVE reduceSlides(_)
reduceSlides(carousels) ==
    IF carousels = <<>> THEN 0
    ELSE Len(Head(carousels).slides) + reduceSlides(Tail(carousels))

\* getProjectMetadata that counts the carousels as slides.
getProjectMetadataOfCarousels(st) ==
    [i \in 1..Len(st.projects) |->
        LET p == st.projects[i] IN
        [id |-> p.id, name |-> p.name, slideCount |-> Len(p.carousels),
         carouselCount |-> Len(p.carousels), createdAt |-> p.createdAt,
         modifiedAt |-> p.modifiedAt, description |-> descriptionOf(p)]]

\* getProjectMetadata()
getProjectMetadata(st) ==
    [i \in 1..Len(st.projects) |->
        LET p == st.projects[i] IN
        [id |-> p.id, name |-> p.name, slideCount |-> reduceSlides(p.carousels),
         carouselCount |-> Len(p.carousels), createdAt |-> p.createdAt,
         modifiedAt |-> p.modifiedAt, description |-> descriptionOf(p)]]

\* createNewProject(name) at time t: the id `project-${t}`.
createNewProject(st, name, t) ==
    saveProject(st, [id |-> <<t>>, name |-> name, carousels |-> <<>>,
                     createdAt |-> t, modifiedAt |-> t], t)

\* renameProject that saves a project of that name when none has the id.
renameProjectOrCreate(st, id, newName, t) ==
    LET found == getProject(st, id) IN
    IF found = NoValue
    THEN saveProject(st, [id |-> id, name |-> newName, carousels |-> <<>>,
                          createdAt |-> t, modifiedAt |-> t], t)
    ELSE saveProject(st, [found EXCEPT !.name = newName], t)

\* renameProject(id, newName) at time t.
renameProject(st, id, newName, t) ==
    LET found == getProject(st, id) IN
    IF found = NoValue
    THEN [st |-> st, status |-> "NotFound", value |-> NoValue]
    ELSE saveProject(st, [found EXCEPT !.name = newName], t)

\* saveCustomLayout(layout): no quota check; a failed write is rethrown as
\* 'Failed to save custom layout'.
saveCustomLayout(st, layout) ==
    LET all == upsert(st.layouts, layout)
        w == safeSetItem(st, "layouts", all, estimateDataSize(all, HtmlTemplate))
    IN [st |-> w.st, status |-> IF w.status = "ok" THEN "ok" ELSE "Failed", value |-> layout]

\* deleteCustomLayout(id)
deleteCustomLayout(st, id) ==
    [st |-> [st EXCEPT !.layouts = filterOut(@, id)], status |-> "ok", value |-> NoValue]

\* saveCustomFont(font)
saveCustomFont(st, font) ==
    LET all == upsert(st.fonts, font)
        dataSize == estimateDataSize(all, Base64Data)
    IN IF ~hasEnoughSpace(st, dataSize)
       THEN [st |-> st, status |-> "QuotaExceeded", value |-> font]
       ELSE LET w == safeSetItem(st, "fonts", all, dataSize) IN
            [st |-> w.st, status |-> IF w.status = "ok" THEN "ok" ELSE "Failed",
             value |-> font]

\* deleteCustomFont(id)
deleteCustomFont(st, id) ==
    [st |-> [st EXCEPT !.fonts = filterOut(@, id)], status |-> "ok", value |-> NoValue]

\* DEFAULT_FONT_SETTINGS_VALUE as the module defines it.
DEFAULT_FONT_SETTINGS_VALUE ==
    [headingFont |-> "AT-Kyrios Standard", bodyFont |-> "AT-Kyrios Text",
     accentFont |-> "Merriweather", googleFonts |-> <<>>]

\* getFontSettings(): the stored record parsed anew, or, when the key is
\* absent, the module's default object itself (not a copy of it).
getFontSettings(st, defaults) ==
    IF st.fontSettings = NoValue THEN defaults ELSE st.fontSettings

\* saveFontSettings(settings): a failed write is rethrown as
\* 'Failed to save font settings'.
saveFontSettings(st, defaults, settings) ==
    LET w == safeSetItem(st, "fontSettings", settings, SettingsSize(settings)) IN
    [st |-> w.st, defaults |-> defaults,
     status |-> IF w.status = "ok" THEN "ok" ELSE "Failed"]

\* array.includes(family)
includes(array, family) == \E i \in 1..Len(array) : array[i] = family

\* array.filter((f) => f !== family)
filterFamily(array, family) == SelectSeq(array, LAMBDA f : f # family)

\* addGoogleFont that pushes the family whether the list has it or not.
addGoogleFontAgain(st, defaults, family) ==
    LET settings == getFontSettings(st, defaults)
        pushed == [settings EXCEPT !.googleFonts = Append(@, family)]
    IN saveFontSettings(st, IF st.fontSettings = NoValue THEN pushed ELSE defaults,
                        pushed)

\* addGoogleFont(family): pushes onto the googleFonts of the object that
\* getFontSettings returned, then saves it.
addGoogleFont(st, defaults, family) ==
    LET settings == getFontSettings(st, defaults) IN
    IF includes(settings.googleFonts, family)
    THEN [st |-> st, defaults |-> defaults, status |-> "ok"]
    ELSE LET pushed == [settings EXCEPT !.googleFonts = Append(@, family)] IN
         saveFontSettings(st, IF st.fontSettings = NoValue THEN pushed ELSE defaults,
                          pushed)

\* removeGoogleFont(family): assigns the filtered list to the object that
\* getFontSettings returned, then saves it.
removeGoogleFont(st, defaults, family) ==
    LET settings == getFontSettings(st, defaults)
        filtered == [settings EXCEPT !.googleFonts = filterFamily(@, family)]
    IN saveFontSettings(st, IF st.fontSettings = NoValue THEN filtered ELSE defaults,
                        filtered)

(* ----------------------------------------------- the provider's callers *)

Names == {"A", "B"}

\* The carousels callers give a project: none, or one carousel of two
\* slides.
CarouselLists ==
    {<<>>,
     <<[id |-> "c1", name |-> <<"a">>,
        slides |-> <<[slide_number |-> 1], [slide_number |-> 2]>>]>>}

\* The markup templates callers give a custom layout: text is a sequence of
\* units, a placeholder being one unit.
Templates == {<<>>, <<"{{title}}">>}

\* The data URLs of font files.
FontData == {<<>>, <<"d">>}

\* The family of the font callers save under an id.
FamilyOf(id) == IF id = 1 THEN "AT-Kyrios Standard" ELSE "Inter"
EntityIds == {1, 2}
Times == 0..MaxClock

\* The ids createNewProject can assign, and the ids in the store.
FreshIds == {<<t>> : t \in Times}
StoredIds == {projects[i].id : i \in 1..Len(projects)}

Store ==
    [projects |-> projects, layouts |-> layouts, fonts |-> fonts,
     fontSettings |-> fontSettings]

\* The projects a caller passes to saveProject: a stored project with its
\* name and content edited, or a project object that is not in the store.
ProjectArgs ==
    {[projects[i] EXCEPT !.name = n, !.carousels = k] :
        i \in 1..Len(projects), n \in Names, k \in CarouselLists}
    \cup
    {[id |-> i, name |-> n, carousels |-> k, createdAt |-> now, modifiedAt |-> now,
      description |-> "d"] :
        i \in FreshIds \ StoredIds, n \in Names, k \in CarouselLists}

\* A provider call returned or threw: its effect on localStorage.
Return(op, out) ==
    /\ projects' = out.st.projects
    /\ layouts' = out.st.layouts
    /\ fonts' = out.st.fonts
    /\ fontSettings' = out.st.fontSettings
    /\ ops < MaxOps
    /\ ops' = ops + 1
    /\ res' = [op |-> op, status |-> out.status]
    /\ UNCHANGED <<now, ctlVars, obsVars, savedSettings, defaultSettings, fontLog,
                   mainVars, codecVars, accessVars>>

Tick ==
    /\ now < MaxClock
    /\ now' = now + 1
    /\ UNCHANGED <<projects, layouts, fonts, res, ops, ctlVars, obsVars, extVars>>

SaveProject ==
    \E p \in ProjectArgs : Return("saveProject", saveProject(Store, p, now))

\* deleteProject(id) returned; `res` keeps whether a project had the id.
DeleteProject ==
    \E id \in StoredIds \cup FreshIds :
        LET out == deleteProject(Store, id) IN
        /\ projects' = out.st.projects
        /\ layouts' = out.st.layouts
        /\ fonts' = out.st.fonts
        /\ fontSettings' = out.st.fontSettings
        /\ ops < MaxOps
        /\ ops' = ops + 1
        /\ res' = [op |-> "deleteProject", status |-> out.status,
                   stored |-> id \in StoredIds]
        /\ UNCHANGED <<now, ctlVars, obsVars, savedSettings, defaultSettings, fontLog,
                       mainVars, codecVars, accessVars>>

DuplicateProject ==
    \E id \in StoredIds \cup FreshIds :
        Return("duplicateProject", duplicateProject(Store, id, now))

CreateNewProject ==
    \E n \in Names : Return("createNewProject", createNewProject(Store, n, now))

RenameProject ==
    \E id \in StoredIds \cup FreshIds, n \in Names :
        Return("renameProject", renameProject(Store, id, n, now))

\* getProjectMetadata returned; `res` keeps the summaries.
GetProjectMetadata ==
    /\ ops < MaxOps
    /\ ops' = ops + 1
    /\ res' = [op |-> "getProjectMetadata", status |-> "ok",
               value |-> getProjectMetadata(Store)]
    /\ UNCHANGED <<projects, layouts, fonts, now, ctlVars, obsVars, extVars>>

SaveCustomLayout ==
    \E id \in EntityIds, k \in Templates :
        LET l == [id |-> id, htmlTemplate |-> k, cssTemplate |-> <<>>] IN
        Return("saveCustomLayout", saveCustomLayout(Store, l))

DeleteCustomLayout ==
    \E id \in EntityIds :
        Return("deleteCustomLayout", deleteCustomLayout(Store, id))

SaveCustomFont ==
    \E id \in EntityIds, k \in FontData :
        LET f == [id |-> id, family |-> FamilyOf(id), format |-> "ttf",
                  base64Data |-> k] IN
        Return("saveCustomFont", saveCustomFont(Store, f))

DeleteCustomFont ==
    \E id \in EntityIds :
        Return("deleteCustomFont", deleteCustomFont(Store, id))

\* The families of external fonts, and the records callers pass to
\* saveFontSettings.
Families == {"Inter", "Lora"}
SettingsArgs ==
    [headingFont : {"AT-Kyrios Standard", "Inter"}, bodyFont : {"AT-Kyrios Text"},
     accentFont : {"Merriweather"},
     googleFonts : {<<>>, <<"Inter">>, <<"Lora", "Inter">>}]

\* A font-settings call returned or threw.
ReturnSettings(op, out) ==
    /\ fontSettings' = out.st.fontSettings
    /\ defaultSettings' = out.defaults
    /\ savedSettings' = IF out.status = "ok" /\ out.st.fontSettings # NoValue
                        THEN out.st.fontSettings ELSE savedSettings
    /\ ops < MaxOps
    /\ ops' = ops + 1
    /\ res' = [op |-> op, status |-> out.status]
    /\ UNCHANGED <<projects, layouts, fonts, now, ctlVars, obsVars, mainVars,
                   codecVars, accessVars>>

\* The log after a call: `calls` has the last add or remove that named each
\* family, `family` is the one this call named, and `incremental` says
\* that the font-settings calls so far were adds and removes that succeeded.
Logged(call, family, status) ==
    [calls |-> IF call = "save" THEN fontLog.calls
               ELSE [fontLog.calls EXCEPT ![family] = call],
     family |-> family,
     incremental |-> fontLog.incremental /\ call # "save" /\ status = "ok"]

SaveFontSettings ==
    \E settings \in SettingsArgs :
        LET out == saveFontSettings(Store, defaultSettings, settings) IN
        /\ ReturnSettings("saveFontSettings", out)
        /\ fontLog' = Logged("save", "", out.status)

AddGoogleFont ==
    \E family \in Families :
        LET out == addGoogleFont(Store, defaultSettings, family) IN
        /\ ReturnSettings("addGoogleFont", out)
        /\ fontLog' = Logged("add", family, out.status)

RemoveGoogleFont ==
    \E family \in Families :
        LET out == removeGoogleFont(Store, defaultSettings, family) IN
        /\ ReturnSettings("removeGoogleFont", out)
        /\ fontLog' = Logged("remove", family, out.status)

\* No font settings stored; the module has just been loaded.
InitFontSettings ==
    /\ fontSettings = NoValue
    /\ defaultSettings = DEFAULT_FONT_SETTINGS_VALUE
    /\ savedSettings = DEFAULT_FONT_SETTINGS_VALUE
    /\ fontLog = [calls |-> [f \in Families |-> "none"], family |-> "",
                  incremental |-> TRUE]

\* The font settings, with the custom fonts sharing the capacity.
NextFontSettings ==
    \/ SaveCustomFont
    \/ DeleteCustomFont
    \/ SaveFontSettings
    \/ AddGoogleFont
    \/ RemoveGoogleFont

(* ------------------------------------- main process: recent projects *)

\* recent.slice(0, 10)
RecentCap == 10

\* The content of recent-projects.json, [] if the file does not exist.
recentGet(file) == IF file.exists THEN file.content ELSE <<>>

\* fs.writeFile(recentFilesPath, JSON.stringify(recent))
recentFileWith(recent) == [exists |-> TRUE, content |-> recent]

\* recent.slice(0, n)
slice(recent, n) == SubSeq(recent, 1, IF Len(recent) < n THEN Len(recent) ELSE n)

\* The recent:add requests that may be in progress at the same time.
Concurrent == {1, 2}

\* recent:add that does not remove the existing entry of the path.
recentAddKeepOld(file, projectPath, projectName, t, io) ==
    LET recent == recentGet(file)
        unshifted == <<[path |-> projectPath, name |-> projectName, timestamp |-> t]>>
                     \o recent
    IN IF io = "ok"
       THEN [file |-> recentFileWith(slice(unshifted, RecentCap)),
             result |-> [success |-> TRUE]]
       ELSE [file |-> file, result |-> [success |-> FALSE, error |-> io]]

\* recent:add(projectPath, projectName) at time t; io is how the write of
\* the file ends.
recentAdd(file, projectPath, projectName, t, io) ==
    LET recent == recentGet(file)
        filtered == SelectSeq(recent, LAMBDA r : r.path # projectPath)
        unshifted == <<[path |-> projectPath, name |-> projectName, timestamp |-> t]>>
                     \o filtered
    IN IF io = "ok"
       THEN [file |-> recentFileWith(slice(unshifted, RecentCap)),
             result |-> [success |-> TRUE]]
       ELSE [file |-> file, result |-> [success |-> FALSE, error |-> io]]

\* recent:clear
recentClear(file, io) ==
    IF io = "ok"
    THEN [file |-> recentFileWith(<<>>), result |-> [success |-> TRUE]]
    ELSE [file |-> file, result |-> [success |-> FALSE, error |-> io]]

\* How a file operation of the main process ends: it succeeds or throws.
IoOutcomes == {"ok", "EIO"}

\* Callers name project paths 1, 2, ... in the order they first use them
\* (with the project name "A"; a path added again comes with the name
\* "B"): at most MaxNewPaths paths, MaxReAdds requests that add a path
\* again and MaxClears clear requests.
MaxNewPaths == 11
MaxReAdds == 1
MaxClears == 1

\* A request to the main process returned `result`.
Reply(request, result) ==
    reply' = [request |-> request, result |-> result]

RecentAddNew ==
    /\ recentObs.used < MaxNewPaths
    /\ \E io \in IoOutcomes :
          LET p == recentObs.used + 1
              out == recentAdd(recentFile, p, "A", now, io)
          IN /\ recentFile' = out.file
             /\ recentObs' = [recentObs EXCEPT
                                !.used = IF io = "ok" THEN p ELSE @,
                                !.log = IF io = "ok" THEN <<p>> \o @ ELSE @]
             /\ Reply("recent:add", out.result)
    /\ UNCHANGED <<rendererVars, diskVars, raceVars>>

RecentAddAgain ==
    /\ recentObs.readds < MaxReAdds
    /\ \E p \in 1..recentObs.used, io \in IoOutcomes :
          LET out == recentAdd(recentFile, p, "B", now, io) IN
          /\ recentFile' = out.file
          /\ recentObs' = [recentObs EXCEPT
                             !.readds = @ + 1,
                             !.log = IF io = "ok" THEN <<p>> \o @ ELSE @]
          /\ Reply("recent:add", out.result)
    /\ UNCHANGED <<rendererVars, diskVars, raceVars>>

RecentClear ==
    /\ recentObs.clears < MaxClears
    /\ \E io \in IoOutcomes :
          LET out == recentClear(recentFile, io) IN
          /\ recentFile' = out.file
          /\ recentObs' = [recentObs EXCEPT
                             !.clears = @ + 1,
                             !.log = IF io = "ok" THEN <<>> ELSE @]
          /\ Reply("recent:clear", out.result)
    /\ UNCHANGED <<rendererVars, diskVars, raceVars>>

\* recent:get
RecentGet ==
    /\ reply.request # "recent:get"
    /\ Reply("recent:get", recentGet(recentFile))
    /\ UNCHANGED <<rendererVars, diskVars, recentVars, raceVars>>

\* No recent-projects.json yet.
InitRecent ==
    /\ recentFile = [exists |-> FALSE, content |-> <<>>]
    /\ recentObs = [log |-> <<>>, used |-> 0, readds |-> 0, clears |-> 0]
    /\ reply = [request |-> "none", result |-> NoValue]
    /\ recentAdds = [at |-> [r \in Concurrent |-> "none"],
                     recent |-> [r \in Concurrent |-> <<>>],
                     overlapped |-> FALSE]

NextRecent ==
    \/ RecentAddNew
    \/ RecentAddAgain
    \/ RecentClear
    \/ RecentGet

\* The handler of request r is between its start and its return.
InProgress(r) == recentAdds.at[r] \in {"readFile", "writeFile"}

\* The path request r adds: a path no earlier request has named.
PathOf(r) == MaxNewPaths + r

\* The list a recent:add handler builds from the list it has read: the
\* entries of the path filtered out, the new entry first, ten at most.
recentAddTo(recent, projectPath, projectName, t) ==
    slice(<<[path |-> projectPath, name |-> projectName, timestamp |-> t]>>
          \o SelectSeq(recent, LAMBDA e : e.path # projectPath), RecentCap)

\* The requests made before the concurrent ones: each completes before the
\* next request starts.
RecentAddBefore ==
    /\ \A r \in Concurrent : recentAdds.at[r] = "none"
    /\ RecentAddNew

\* recent:add of request r starts: existsSync, then either the await of
\* readFile or, the file not existing, the list of the new entry alone and
\* the await of writeFile.
RecentAddStart(r) ==
    /\ recentAdds.at[r] = "none"
    /\ recentAdds' =
          [at |-> [recentAdds.at EXCEPT ![r] = IF recentFile.exists THEN "readFile"
                                               ELSE "writeFile"],
           recent |-> [recentAdds.recent EXCEPT ![r] =
                         IF recentFile.exists THEN @
                         ELSE recentAddTo(<<>>, PathOf(r), "A", now)],
           overlapped |-> recentAdds.overlapped
                          \/ \E o \in Concurrent \ {r} : InProgress(o)]
    /\ UNCHANGED <<rendererVars, diskVars, recentVars, reply>>

\* readFile of request r completes: the handler parses what the file holds
\* now, builds its list and awaits writeFile.
RecentAddRead(r) ==
    /\ recentAdds.at[r] = "readFile"
    /\ recentAdds' =
          [recentAdds EXCEPT
             !.at[r] = "writeFile",
             !.recent[r] = recentAddTo(recentFile.content, PathOf(r), "A", now)]
    /\ UNCHANGED <<rendererVars, diskVars, recentVars, reply>>

\* writeFile of request r completes and the handler returns.
RecentAddWrite(r) ==
    /\ recentAdds.at[r] = "writeFile"
    /\ recentFile' = recentFileWith(recentAdds.recent[r])
    /\ recentAdds' = [recentAdds EXCEPT !.at[r] = "returned"]
    /\ Reply("recent:add", [success |-> TRUE])
    /\ UNCHANGED <<rendererVars, diskVars, recentObs>>

\* Two recent:add requests whose handlers interleave at their awaits.
NextRace ==
    \/ RecentAddBefore
    \/ \E r \in Concurrent : RecentAddStart(r)
    \/ \E r \in Concurrent : RecentAddRead(r)
    \/ \E r \in Concurrent : RecentAddWrite(r)

(* ---------------------------------------- main process: the file system *)

\* A path is the sequence of its segments below the root, a segment a
\* sequence of characters; the disk is the set of its directories and files.
Dir(p) == [path |-> p, dir |-> TRUE, data |-> NoValue]
File(p, data) == [path |-> p, dir |-> FALSE, data |-> data]

\* fs.existsSync
existsSync(d, p) == p = <<>> \/ \E n \in d : n.path = p

\* Stats.isDirectory / Stats.isFile of what is at p
isDirectory(d, p) == p = <<>> \/ Dir(p) \in d
isFile(d, p) == \E n \in d : n.path = p /\ ~n.dir

\* path.dirname
dirname(p) == IF p = <<>> THEN <<>> ELSE SubSeq(p, 1, Len(p) - 1)

\* p is q or an ancestor of q.
IsPrefix(p, q) == Len(p) <= Len(q) /\ SubSeq(q, 1, Len(p)) = p

\* A call of node's fs module that threw `code`.
Thrown(d, code) == [disk |-> d, status |-> code, data |-> NoValue]
Done(d, data) == [disk |-> d, status |-> "ok", data |-> data]

\* fs.mkdirSync(p, { recursive: true }); io is the fault the disk has, if any.
mkdirSync(d, p, io) ==
    IF io # "ok" THEN Thrown(d, io)
    ELSE IF \E k \in 1..Len(p) : isFile(d, SubSeq(p, 1, k)) THEN Thrown(d, "ENOTDIR")
    ELSE Done(d \cup {Dir(SubSeq(p, 1, k)) : k \in 1..Len(p)}, NoValue)

\* fs.promises.writeFile(p, data)
writeFile(d, p, data, io) ==
    IF io # "ok" THEN Thrown(d, io)
    ELSE IF isDirectory(d, p) THEN Thrown(d, "EISDIR")
    ELSE IF ~isDirectory(d, dirname(p)) THEN Thrown(d, "ENOENT")
    ELSE Done({n \in d : n.path # p} \cup {File(p, data)}, NoValue)

\* fs.promises.readFile(p)
readFile(d, p, io) ==
    IF io # "ok" THEN Thrown(d, io)
    ELSE IF ~isFile(d, p) THEN Thrown(d, IF isDirectory(d, p) THEN "EISDIR" ELSE "ENOENT")
    ELSE Done(d, (CHOOSE n \in d : n.path = p).data)

\* fs.promises.unlink(p)
unlink(d, p, io) ==
    IF io # "ok" THEN Thrown(d, io)
    ELSE IF ~isFile(d, p) THEN Thrown(d, IF isDirectory(d, p) THEN "EPERM" ELSE "ENOENT")
    ELSE Done({n \in d : n.path # p}, NoValue)

\* fs.promises.readdir(p, { withFileTypes: true }), mapped to the entries
\* the handler returns.
readdir(d, p, io) ==
    IF io # "ok" THEN Thrown(d, io)
    ELSE IF ~isDirectory(d, p) THEN Thrown(d, IF isFile(d, p) THEN "ENOTDIR" ELSE "ENOENT")
    ELSE Done(d, {[name |-> n.path[Len(n.path)], isDirectory |-> n.dir, isFile |-> ~n.dir] :
                    n \in {m \in d : m.path # <<>> /\ dirname(m.path) = p}})

\* fs.promises.rm(p, { recursive: true, force: true })
rm(d, p, io) ==
    IF io # "ok" THEN Thrown(d, io)
    ELSE Done({n \in d : ~IsPrefix(p, n.path)}, NoValue)

\* A string: the text `bytes`, base64-encoded `level` times.
Text(bytes) == [bytes |-> bytes, level |-> 0]

\* buffer.toString('base64')
toBase64(data) == [data EXCEPT !.level = @ + 1]

\* Buffer.from(s, 'base64'): decodes; of a string that is no base64 text it
\* keeps only what happens to decode.
fromBase64(s) == IF s.level > 0 THEN [s EXCEPT !.level = @ - 1] ELSE Text("garbage")

\* What a handler returns.
Success == [success |-> TRUE]
SuccessWith(data) == [success |-> TRUE, data |-> data]
Failure(error) == [success |-> FALSE, error |-> error]

\* fs:readFile
fsReadFile(d, filePath, io) ==
    LET r == readFile(d, filePath, io) IN
    [disk |-> d, result |-> IF r.status = "ok" THEN SuccessWith(r.data) ELSE Failure(r.status)]

\* fs:readBinaryFile
fsReadBinaryFile(d, filePath, io) ==
    LET r == readFile(d, filePath, io) IN
    [disk |-> d,
     result |-> IF r.status = "ok" THEN SuccessWith(toBase64(r.data)) ELSE Failure(r.status)]

\* fs:writeFile that does not create the directory.
fsWriteFileNoMkdir(d, filePath, content, io) ==
    LET w == writeFile(d, filePath, content, io) IN
    [disk |-> w.disk, result |-> IF w.status = "ok" THEN Success ELSE Failure(w.status)]

\* fs:writeFile
fsWriteFile(d, filePath, content, io) ==
    LET dir == dirname(filePath)
        m == IF ~existsSync(d, dir) THEN mkdirSync(d, dir, io) ELSE Done(d, NoValue)
        w == writeFile(m.disk, filePath, content, io)
    IN IF m.status # "ok" THEN [disk |-> m.disk, result |-> Failure(m.status)]
       ELSE [disk |-> w.disk, result |-> IF w.status = "ok" THEN Success ELSE Failure(w.status)]

\* fs:writeBinaryFile
fsWriteBinaryFile(d, filePath, base64Data, io) ==
    fsWriteFile(d, filePath, fromBase64(base64Data), io)

\* fs:deleteFile
fsDeleteFile(d, filePath, io) ==
    LET r == unlink(d, filePath, io) IN
    [disk |-> r.disk, result |-> IF r.status = "ok" THEN Success ELSE Failure(r.status)]

\* fs:readDir
fsReadDir(d, dirPath, io) ==
    LET r == readdir(d, dirPath, io) IN
    [disk |-> d, result |-> IF r.status = "ok" THEN SuccessWith(r.data) ELSE Failure(r.status)]

\* fs:mkdir
fsMkdir(d, dirPath, io) ==
    LET m == IF ~existsSync(d, dirPath) THEN mkdirSync(d, dirPath, io) ELSE Done(d, NoValue) IN
    [disk |-> m.disk, result |-> IF m.status = "ok" THEN Success ELSE Failure(m.status)]

\* fs:rmdir
fsRmdir(d, dirPath, io) ==
    LET r == rm(d, dirPath, io) IN
    [disk |-> r.disk, result |-> IF r.status = "ok" THEN Success ELSE Failure(r.status)]

\* The paths and the strings the renderer passes to the fs handlers, and the
\* number of requests it makes.
Segments == {<<"a">>, <<"b">>}
FsPaths == {<<s>> : s \in Segments} \cup {<<s, t>> : s, t \in Segments}
FileContents == {Text("x"), toBase64(Text("x"))}
MaxRequests == 3

\* What a request met: its path, the fault of the disk, the string passed,
\* and whether the path and its directory existed.
Asked(p, io, data) ==
    [path |-> p, io |-> io, data |-> data, existed |-> existsSync(disk, p),
     dirExisted |-> existsSync(disk, dirname(p))]

\* A handler of the main process returned.
Handled(request, out, input) ==
    /\ requests < MaxRequests
    /\ requests' = requests + 1
    /\ disk' = out.disk
    /\ asked' = input
    /\ Reply(request, out.result)
    /\ UNCHANGED <<rendererVars, recentVars, raceVars>>

FsReadFile ==
    \E p \in FsPaths, io \in IoOutcomes :
        Handled("fs:readFile", fsReadFile(disk, p, io), Asked(p, io, NoValue))

FsReadBinaryFile ==
    \E p \in FsPaths, io \in IoOutcomes :
        Handled("fs:readBinaryFile", fsReadBinaryFile(disk, p, io), Asked(p, io, NoValue))

FsWriteFile ==
    \E p \in FsPaths, content \in FileContents, io \in IoOutcomes :
        Handled("fs:writeFile", fsWriteFile(disk, p, content, io), Asked(p, io, content))

FsWriteBinaryFile ==
    \E p \in FsPaths, base64Data \in FileContents, io \in IoOutcomes :
        Handled("fs:writeBinaryFile", fsWriteBinaryFile(disk, p, base64Data, io),
                Asked(p, io, base64Data))

FsDeleteFile ==
    \E p \in FsPaths, io \in IoOutcomes :
        Handled("fs:deleteFile", fsDeleteFile(disk, p, io), Asked(p, io, NoValue))

FsReadDir ==
    \E p \in FsPaths, io \in IoOutcomes :
        Handled("fs:readDir", fsReadDir(disk, p, io), Asked(p, io, NoValue))

FsMkdir ==
    \E p \in FsPaths, io \in IoOutcomes :
        Handled("fs:mkdir", fsMkdir(disk, p, io), Asked(p, io, NoValue))

FsRmdir ==
    \E p \in FsPaths, io \in IoOutcomes :
        Handled("fs:rmdir", fsRmdir(disk, p, io), Asked(p, io, NoValue))

\* The folder the user picks for an export.
ExportRoot == << <<"o", "u", "t">> >>

\* A disk that holds that folder only.
InitDisk ==
    /\ disk = {Dir(ExportRoot)}
    /\ asked = [path |-> <<>>, io |-> "ok", data |-> NoValue, existed |-> TRUE,
                dirExisted |-> TRUE]
    /\ requests = 0

NextFs ==
    \/ FsReadFile
    \/ FsReadBinaryFile
    \/ FsWriteFile
    \/ FsWriteBinaryFile
    \/ FsDeleteFile
    \/ FsReadDir
    \/ FsMkdir
    \/ FsRmdir

(* ------------------------------------ main process: export and import *)

\* A name is a sequence of characters. path.join(base, name) splits the
\* name at its separators and resolves '.', '..' and empty segments.
RECURSIVE split(_)
split(name) ==
    IF name = <<>> THEN << <<>> >>
    ELSE LET rest == split(Tail(name)) IN
         IF Head(name) = "/" THEN << <<>> >> \o rest
         ELSE << <<Head(name)>> \o Head(rest) >> \o Tail(rest)

RECURSIVE normalize(_, _)
normalize(p, segments) ==
    IF segments = <<>> THEN p
    ELSE LET segment == Head(segments) IN
         normalize(IF segment \in {<<>>, <<".">>} THEN p
                   ELSE IF segment = <<".", ".">> THEN dirname(p)
                   ELSE Append(p, segment),
                   Tail(segments))

\* path.join
join(base, name) == normalize(base, split(name))

\* The characters of [a-zA-Z0-9-_] among those names are made of here.
SafeChars == {"a", "-"}

\* String(n).padStart(3, '0')
padStart3(n) ==
    IF n < 10 THEN "00" \o ToString(n) ELSE IF n < 100 THEN "0" \o ToString(n) ELSE ToString(n)

\* carouselName.replace(/[^a-zA-Z0-9-_]/g, '-')
safeName(carouselName) ==
    [i \in 1..Len(carouselName) |->
        IF carouselName[i] \in SafeChars THEN carouselName[i] ELSE "-"]

\* generateSlideFilename(slide, carouselName, preset, format)
generateSlideFilename(slide, carouselName, format) ==
    safeName(carouselName) \o <<"-slide-", padStart3(slide.slide_number), ".", format>>

\* The document of slide number n of the i-th carousel.
SvgOf(i, n) == Text("c" \o ToString(i) \o "s" \o ToString(n))

\* The CarouselExport list the renderer passes for a project: a carousel
\* under its name, each slide under its generated file name.
carouselExports(proj) ==
    [i \in 1..Len(proj.carousels) |->
        LET carousel == proj.carousels[i] IN
        [name |-> carousel.name,
         slides |-> [k \in 1..Len(carousel.slides) |->
                       [name |-> generateSlideFilename(carousel.slides[k], carousel.name, "svg"),
                        svgContent |-> SvgOf(i, carousel.slides[k].slide_number)]]]]

\* A dismissed picker reported as a failure.
CanceledAsFailure == [success |-> FALSE, error |-> "canceled"]

\* return { success: false, canceled: true }
Canceled == [success |-> FALSE, canceled |-> TRUE]

\* The slides of one carousel written in turn below carouselPath, until a
\* write throws; `written` lists the paths written so far.
RECURSIVE writeSlides(_, _, _, _, _)
writeSlides(d, carouselPath, slides, written, io) ==
    IF slides = <<>> THEN [disk |-> d, status |-> "ok", written |-> written]
    ELSE LET slidePath == join(carouselPath, Head(slides).name)
             w == writeFile(d, slidePath, Head(slides).svgContent, io)
         IN IF w.status # "ok" THEN [disk |-> d, status |-> w.status, written |-> written]
            ELSE writeSlides(w.disk, carouselPath, Tail(slides),
                             Append(written, slidePath), io)

\* The carousels exported in turn below exportPath, until a call throws.
RECURSIVE writeCarousels(_, _, _, _, _)
writeCarousels(d, exportPath, carousels, written, io) ==
    IF carousels = <<>> THEN [disk |-> d, status |-> "ok", written |-> written]
    ELSE LET carouselPath == join(exportPath, Head(carousels).name)
             m == IF ~existsSync(d, carouselPath) THEN mkdirSync(d, carouselPath, io)
                  ELSE Done(d, NoValue)
             w == writeSlides(m.disk, carouselPath, Head(carousels).slides, written, io)
         IN IF m.status # "ok" THEN [disk |-> d, status |-> m.status, written |-> written]
            ELSE IF w.status # "ok" THEN w
            ELSE writeCarousels(w.disk, exportPath, Tail(carousels), w.written, io)

\* export:saveProjectFolder; dialog is what showOpenDialog resolved to.
exportSaveProjectFolder(d, options, dialog, io) ==
    IF dialog.canceled \/ dialog.filePaths = <<>>
    THEN [disk |-> d, result |-> Canceled, written |-> <<>>]
    ELSE LET exportPath == join(dialog.filePaths[1], options.projectName)
             m == IF ~existsSync(d, exportPath) THEN mkdirSync(d, exportPath, io)
                  ELSE Done(d, NoValue)
             w == writeCarousels(m.disk, exportPath, options.carousels, <<>>, io)
         IN IF m.status # "ok"
            THEN [disk |-> d, result |-> Failure(m.status), written |-> <<>>]
            ELSE [disk |-> w.disk,
                  result |-> IF w.status = "ok"
                             THEN [success |-> TRUE, exportPath |-> exportPath]
                             ELSE Failure(w.status),
                  written |-> w.written]

\* export:saveSvg; dialog is what showSaveDialog resolved to (it is shown
\* only if no projectPath is passed).
exportSaveSvg(d, options, dialog, io) ==
    IF ~options.projectPath.given /\ (dialog.canceled \/ dialog.filePath = <<>>)
    THEN [disk |-> d, result |-> Canceled]
    ELSE LET filePath == IF options.projectPath.given
                         THEN join(options.projectPath.path, options.defaultName)
                         ELSE dialog.filePath
             dir == dirname(filePath)
             m == IF ~existsSync(d, dir) THEN mkdirSync(d, dir, io) ELSE Done(d, NoValue)
             w == writeFile(m.disk, filePath, options.svgContent, io)
         IN IF m.status # "ok" THEN [disk |-> d, result |-> Failure(m.status)]
            ELSE [disk |-> w.disk,
                  result |-> IF w.status = "ok"
                             THEN [success |-> TRUE, filePath |-> filePath]
                             ELSE Failure(w.status)]

\* basename(filePath, extname(filePath)): the last segment without its
\* extension (what follows its last '.', unless the name starts with it).
basename(filePath) ==
    LET base == filePath[Len(filePath)]
        dots == {i \in 2..Len(base) : base[i] = "."}
    IN IF dots = {} THEN base
       ELSE SubSeq(base, 1, (CHOOSE i \in dots : \A j \in dots : j <= i) - 1)

\* import:figmaSvg; dialog is what showOpenDialog resolved to, unreadable
\* the selected files whose read fails. Promise.all rejects with the first
\* read that fails.
importFigmaSvg(d, dialog, unreadable) ==
    IF dialog.canceled \/ dialog.filePaths = <<>>
    THEN [disk |-> d, result |-> Canceled]
    ELSE LET read(i) == readFile(d, dialog.filePaths[i],
                                 IF dialog.filePaths[i] \in unreadable THEN "EACCES" ELSE "ok")
             failed == {i \in 1..Len(dialog.filePaths) : read(i).status # "ok"}
         IN IF failed # {}
            THEN [disk |-> d,
                  result |-> Failure(read(CHOOSE i \in failed : \A j \in failed : i <= j).status)]
            ELSE [disk |-> d,
                  result |-> [success |-> TRUE,
                              files |-> [i \in 1..Len(dialog.filePaths) |->
                                           [name |-> basename(dialog.filePaths[i]),
                                            path |-> dialog.filePaths[i],
                                            content |-> read(i).data]]]]

\* The projects the renderer exports: names with a blank, a separator or
\* dots among them, one or two carousels of one or two slides.
ExportNames == {<<"a">>, <<"a", " ">>, <<".", ".">>}
SlideLists == {<<[slide_number |-> 1]>>, <<[slide_number |-> 1], [slide_number |-> 2]>>}
ExportCarousels == [name : ExportNames, slides : SlideLists]
ExportProjects ==
    [name : {<<"a">>, <<".", ".">>},
     carousels : {<<c>> : c \in ExportCarousels}
                 \cup {<<c1, c2>> : c1, c2 \in ExportCarousels}]

\* The file names of single slides; the user saves them in the export
\* root and picks the documents to import there.
SvgNames == {<<"s", ".", "s", "v", "g">>, <<"t", ".", "s", "v", "g">>}
Pickable(d) == {n.path : n \in {m \in d : ~m.dir /\ dirname(m.path) = ExportRoot}}

\* The number of folder exports that run, each among the first requests.
MaxExports == 1

\* The number of slides in a CarouselExport list.
RECURSIVE SlideCount(_)
SlideCount(carousels) ==
    IF carousels = <<>> THEN 0
    ELSE Len(Head(carousels).slides) + SlideCount(Tail(carousels))

\* The files on the disk.
FilePaths(d) == {n.path : n \in {m \in d : ~m.dir}}

ExportSaveSvg ==
    \E name \in SvgNames, given \in BOOLEAN, canceled \in BOOLEAN, io \in IoOutcomes :
        LET options == [svgContent |-> Text("s"), defaultName |-> name,
                        projectPath |-> [given |-> given, path |-> ExportRoot]]
            dialog == [canceled |-> canceled,
                       filePath |-> IF canceled THEN <<>> ELSE Append(ExportRoot, name)]
        IN /\ given => ~canceled
           /\ Handled("export:saveSvg", exportSaveSvg(disk, options, dialog, io),
                      [io |-> io, canceled |-> canceled])

ExportSaveProjectFolder ==
    \E proj \in ExportProjects, canceled \in BOOLEAN, io \in IoOutcomes :
        LET options == [projectName |-> proj.name, carousels |-> carouselExports(proj)]
            dialog == [canceled |-> canceled,
                       filePaths |-> IF canceled THEN <<>> ELSE <<ExportRoot>>]
            out == exportSaveProjectFolder(disk, options, dialog, io)
        IN /\ ~canceled => requests < MaxExports
           /\ canceled => proj = CHOOSE p \in ExportProjects : TRUE
           /\ Handled("export:saveProjectFolder", out,
                      [io |-> io, canceled |-> canceled, root |-> ExportRoot,
                       options |-> options, written |-> out.written])

ImportFigmaSvg ==
    \E canceled \in BOOLEAN, picked \in SUBSET Pickable(disk) :
        \E unreadable \in SUBSET picked :
            LET order[n \in 0..Cardinality(picked)] ==
                    IF n = 0 THEN <<>>
                    ELSE Append(order[n - 1],
                                CHOOSE p \in picked :
                                    /\ \A i \in 1..(n - 1) : order[n - 1][i] # p)
                dialog == [canceled |-> canceled,
                           filePaths |-> IF canceled THEN <<>> ELSE order[Cardinality(picked)]]
            IN /\ Cardinality(picked) <= 2
               /\ canceled <=> picked = {}
               /\ Handled("import:figmaSvg", importFigmaSvg(disk, dialog, unreadable),
                          [io |-> IF unreadable = {} THEN "ok" ELSE "EACCES",
                           canceled |-> canceled, selected |-> Cardinality(picked),
                           failing |-> Cardinality(unreadable)])

NextExport ==
    \/ ExportSaveSvg
    \/ ExportSaveProjectFolder
    \/ ImportFigmaSvg

(* ------------------------------------------ LocalStorageProvider: uploads *)

\* The lower-case letter of each upper-case letter file names are made of.
LowerCase == [A |-> "a", F |-> "f", O |-> "o", T |-> "t"]

\* text.toLowerCase()
toLowerCase(text) ==
    [i \in 1..Len(text) |->
        IF text[i] \in DOMAIN LowerCase THEN LowerCase[text[i]] ELSE text[i]]

\* The index of the last '.' of the name, or 0.
lastDot(name) ==
    IF \E i \in 1..Len(name) : name[i] = "."
    THEN CHOOSE i \in 1..Len(name) :
            name[i] = "." /\ \A j \in (i + 1)..Len(name) : name[j] # "."
    ELSE 0

\* file.name.split('.').pop(): what follows the last '.', the whole name
\* if it has none.
pop(name) == SubSeq(name, lastDot(name) + 1, Len(name))

\* ['ttf', 'otf', 'woff', 'woff2']
FontFormats ==
    {<<"t", "t", "f">>, <<"o", "t", "f">>, <<"w", "o", "f", "f">>,
     <<"w", "o", "f", "f", "2">>}

\* file.name.replace(/\.[^/.]+$/, ''): the name without its last '.' and
\* what follows, if something other than '/' follows.
removeExtension(name) ==
    LET dot == lastDot(name) IN
    IF dot > 0 /\ dot < Len(name) /\ \A j \in (dot + 1)..Len(name) : name[j] # "/"
    THEN SubSeq(name, 1, dot - 1) ELSE name

\* fontName.replace(/[-_]/g, ' ')
spaced(fontName) ==
    [i \in 1..Len(fontName) |-> IF fontName[i] \in {"-", "_"} THEN " " ELSE fontName[i]]

\* uploadFont(file) at time t, the FileReader loading the file or failing.
uploadFont(st, file, t, read) ==
    LET extension == toLowerCase(pop(file.name))
        fontName == removeExtension(file.name)
        font == [id |-> <<t>>, name |-> fontName, family |-> spaced(fontName),
                 format |-> extension, base64Data |-> file.data, uploadedAt |-> t]
    IN IF read # "ok"
       THEN [st |-> st, status |-> "Failed to read font file", value |-> NoValue]
       ELSE IF extension = <<>> \/ extension \notin FontFormats
       THEN [st |-> st, status |-> "UnsupportedFormat", value |-> NoValue]
       ELSE saveCustomFont(st, font)

\* The files a user uploads: each format, upper case, a name with '-' and
\* '_', two dots, another extension, no extension, a trailing dot.
FontFileNames ==
    {<<"a", ".", "t", "t", "f">>, <<"a", "-", "b", "_", "c", ".", "O", "T", "F">>,
     <<"a", ".", "w", "o", "f", "f">>, <<"a", ".", "w", "o", "f", "f", "2">>,
     <<"a", ".", "b", ".", "t", "t", "f">>, <<"a", ".", "p", "n", "g">>,
     <<"a", ".", "t", "t", "f", ".", "p", "n", "g">>, <<"a">>, <<"o", "t", "f">>,
     <<"a", ".">>}
FontFiles == [name : FontFileNames, data : FontData]

\* An upload returned or was rejected; `res` keeps the file it was given.
UploadFont ==
    \E file \in FontFiles, read \in {"ok", "error"} :
        LET out == uploadFont(Store, file, now, read) IN
        /\ fonts' = out.st.fonts
        /\ ops < MaxOps
        /\ ops' = ops + 1
        /\ res' = [op |-> "uploadFont", status |-> out.status, file |-> file,
                   read |-> read]
        /\ UNCHANGED <<projects, layouts, now, ctlVars, obsVars, extVars>>

\* Font uploads as the clock advances.
NextUpload ==
    \/ Tick
    \/ UploadFont

\* The operations that create an entry, as the clock advances.
NextCreate ==
    \/ Tick
    \/ CreateNewProject
    \/ DuplicateProject
    \/ UploadFont

(* ------------------------------------------------------ Document Codec *)

\* Text is a sequence of units: a character, or a run of characters that
\* no operation here looks into (a placeholder such as '{{title}}' is one
\* unit, and so is a colour or a font family).

\* What String.prototype.replace inserts for one match of the pattern when
\* the replacement is a string: '$$' inserts '$' and '$&' inserts the
\* matched text; every other unit inserts itself.
RECURSIVE expand(_, _)
expand(replacement, matched) ==
    IF replacement = <<>> THEN <<>>
    ELSE IF Len(replacement) > 1 /\ replacement[1] = "$" /\ replacement[2] = "$"
         THEN <<"$">> \o expand(Tail(Tail(replacement)), matched)
    ELSE IF Len(replacement) > 1 /\ replacement[1] = "$" /\ replacement[2] = "&"
         THEN <<matched>> \o expand(Tail(Tail(replacement)), matched)
    ELSE <<Head(replacement)>> \o expand(Tail(replacement), matched)

\* text.replace(/pattern/g, replacement): every occurrence of the unit
\* `pattern` in the text as it is before the call is replaced.
RECURSIVE replace(_, _, _)
replace(text, pattern, replacement) ==
    IF text = <<>> THEN <<>>
    ELSE (IF Head(text) = pattern THEN expand(replacement, pattern) ELSE <<Head(text)>>)
         \o replace(Tail(text), pattern, replacement)

\* The entity each reserved character is escaped to.
Entities ==
    {[char |-> "&", entity |-> <<"&", "a", "m", "p", ";">>],
     [char |-> "<", entity |-> <<"&", "l", "t", ";">>],
     [char |-> ">", entity |-> <<"&", "g", "t", ";">>],
     [char |-> "\"", entity |-> <<"&", "q", "u", "o", "t", ";">>],
     [char |-> "'", entity |-> <<"&", "a", "p", "o", "s", ";">>]}

EntityOf(char) == (CHOOSE e \in Entities : e.char = char).entity

\* escapeXml(text): five replacements in turn, '&' first.
escapeXml(text) ==
    replace(replace(replace(replace(replace(text,
        "&", EntityOf("&")), "<", EntityOf("<")), ">", EntityOf(">")),
        "\"", EntityOf("\"")), "'", EntityOf("'"))

\* text.startsWith(prefix)
startsWith(text, prefix) ==
    Len(text) >= Len(prefix) /\ SubSeq(text, 1, Len(prefix)) = prefix

\* What a reader of the document makes of embedded text: each of the five
\* entities stands for its character, everything else for itself.
RECURSIVE unescapeXml(_)
unescapeXml(text) ==
    IF text = <<>> THEN <<>>
    ELSE IF \E e \in Entities : startsWith(text, e.entity)
         THEN LET e == CHOOSE x \in Entities : startsWith(text, x.entity) IN
              <<e.char>> \o unescapeXml(SubSeq(text, Len(e.entity) + 1, Len(text)))
    ELSE <<Head(text)>> \o unescapeXml(Tail(text))

\* No codec call yet.
InitCodec == codec = [op |-> "none", in |-> NoValue, out |-> NoValue]

\* A call of a pure function of the codec returned, each call being
\* observed on its own: it reads the store and writes nothing.
Called(op, in, out) ==
    /\ codec.op = "none"
    /\ codec' = [op |-> op, in |-> in, out |-> out]
    /\ UNCHANGED <<ctlVars, obsVars, storeVars, settingsVars, mainVars, accessVars>>

\* The carousel names and slide numbers file names are generated for.
CarouselNames == ExportNames \cup {<<>>, <<"a", "-", "a">>, <<"a", "/", "a">>}
SlideNumbers == {1, 12, 123}

GenerateSlideFilename ==
    \E carouselName \in CarouselNames, n \in SlideNumbers, format \in {"svg", "png"} :
        Called("generateSlideFilename",
               [carouselName |-> carouselName, slide_number |-> n, format |-> format],
               [name |-> generateSlideFilename([slide_number |-> n], carouselName,
                                               format)])

\* The values of text fields: up to two units out of ordinary characters
\* and the five reserved ones, and text that reads like an entity.
TextUnits == {"a", ";", "&", "<", ">", "\"", "'"}
TextValues ==
    {<<>>} \cup {<<a>> : a \in TextUnits} \cup {<<a, b>> : a, b \in TextUnits}
    \cup {EntityOf("&"), EntityOf("<"), <<"&", "a", "&", "a", "m", "p", ";">>}

EscapeXml ==
    \E text \in TextValues :
        Called("escapeXml", [text |-> text], [text |-> escapeXml(text)])

\* Lengths are in 1/10000 px, so that the fractions the renderers multiply
\* by are whole numbers: px(n) is n px, and Math.min(w, h) * 0.06 is
\* Min(w, h) * 600.
px(n) == n * 10000

\* a || b on strings: the first unless it is empty (or missing).
or(a, b) == IF a # <<>> THEN a ELSE b

\* text.split('\n')
RECURSIVE splitLines(_)
splitLines(text) ==
    IF text = <<>> THEN << <<>> >>
    ELSE LET rest == splitLines(Tail(text)) IN
         IF Head(text) = "\n" THEN << <<>> >> \o rest
         ELSE << <<Head(text)>> \o Head(rest) >> \o Tail(rest)

\* One element of the markup: its tag and id, the lengths among its
\* attributes and styles, its font family, its colour and its text content.
element(tag, id, geometry, family, fill, text) ==
    [tag |-> tag, id |-> id, geometry |-> geometry, family |-> family, fill |-> fill,
     text |-> text]

\* <rect id="background" width height fill/>, which every variant starts with.
background(slide, width, height) ==
    element("rect", "background", [width |-> px(width), height |-> px(height)],
            "", slide.background_color, <<>>)

\* `${cond ? markup : ''}`
when(cond, markup) == IF cond THEN <<markup>> ELSE <<>>

\* renderDictionaryEntry(slide, width, height, fonts)
renderDictionaryEntry(slide, width, height, fontsIn) ==
    LET padding == Min(width, height) * 600
        titleSize == Min(width, height) * 800
        bodySize == Min(width, height) * 350
        subtitleSize == Min(width, height) * 250
    IN <<background(slide, width, height)>>
       \o when(slide.title # <<>>,
               element("text", "title-text",
                       [x |-> padding, y |-> padding + titleSize, fontSize |-> titleSize],
                       fontsIn.headingFont, slide.font_color, escapeXml(slide.title)))
       \o when(slide.subtitle # <<>>,
               element("text", "subtitle-text",
                       [x |-> padding, y |-> padding + titleSize + subtitleSize + px(10),
                        fontSize |-> subtitleSize],
                       fontsIn.bodyFont, slide.accent_color, escapeXml(slide.subtitle)))
       \o <<element("line", "accent-element",
                    [x1 |-> padding, y1 |-> padding + titleSize + subtitleSize + px(30),
                     x2 |-> px(width) - padding,
                     y2 |-> padding + titleSize + subtitleSize + px(30),
                     strokeWidth |-> px(2)],
                    "", slide.accent_color, <<>>)>>
       \o when(slide.body_text # <<>>,
               element("foreignObject", "",
                       [x |-> padding, y |-> padding + titleSize + subtitleSize + px(50),
                        width |-> px(width) - padding * 2,
                        height |-> px(height) - padding * 2 - titleSize - subtitleSize
                                   - px(60),
                        fontSize |-> bodySize],
                       fontsIn.bodyFont, slide.font_color, escapeXml(slide.body_text)))

\* renderBoldCallout(slide, width, height, fonts)
renderBoldCallout(slide, width, height, fontsIn) ==
    LET textSize == Min(width, height) * 600
        lines == splitLines(or(slide.body_text, or(slide.title, <<>>)))
        lineHeight == (textSize * 14) \div 10
        totalHeight == Len(lines) * lineHeight
        startY == (px(height) - totalHeight) \div 2 + textSize
    IN <<background(slide, width, height)>>
       \o [k \in 1..Len(lines) |->
              element("text", "body-text-" \o ToString(k - 1),
                      [x |-> px(width) \div 2, y |-> startY + (k - 1) * lineHeight,
                       fontSize |-> textSize],
                      fontsIn.headingFont, slide.font_color, escapeXml(lines[k]))]

\* renderHeaderBody(slide, width, height, fonts)
renderHeaderBody(slide, width, height, fontsIn) ==
    LET padding == Min(width, height) * 800
        titleSize == Min(width, height) * 1000
        bodySize == Min(width, height) * 400
    IN <<background(slide, width, height)>>
       \o when(slide.title # <<>>,
               element("text", "title-text",
                       [x |-> px(width) \div 2, y |-> height * 3500,
                        fontSize |-> titleSize],
                       fontsIn.headingFont, slide.font_color, escapeXml(slide.title)))
       \o <<element("rect", "accent-element",
                    [x |-> px(width) \div 2 - px(50), y |-> height * 4200,
                     width |-> px(100), height |-> px(4)],
                    "", slide.accent_color, <<>>)>>
       \o when(slide.body_text # <<>>,
               element("foreignObject", "",
                       [x |-> padding, y |-> height * 4800,
                        width |-> px(width) - padding * 2, height |-> height * 4000,
                        fontSize |-> bodySize],
                       fontsIn.bodyFont, slide.font_color, escapeXml(slide.body_text)))

\* renderQuoteHighlight(slide, width, height, fonts)
renderQuoteHighlight(slide, width, height, fontsIn) ==
    LET padding == Min(width, height) * 1000
        quoteSize == Min(width, height) * 500
        quoteMarkSize == Min(width, height) * 1500
    IN <<background(slide, width, height),
         element("text", "",
                 [x |-> padding, y |-> height * 2500, fontSize |-> quoteMarkSize],
                 "Georgia", slide.accent_color, <<"\"">>)>>
       \o when(or(slide.quote, slide.body_text) # <<>>,
               element("foreignObject", "",
                       [x |-> padding + px(20), y |-> height * 3000,
                        width |-> px(width) - padding * 2 - px(40),
                        height |-> height * 4000, fontSize |-> quoteSize],
                       fontsIn.accentFont, slide.font_color,
                       escapeXml(or(slide.quote, or(slide.body_text, <<>>)))))
       \o when(slide.title # <<>>,
               element("text", "attribution",
                       [x |-> px(width) - padding, y |-> height * 8000,
                        fontSize |-> (quoteSize * 6) \div 10],
                       fontsIn.bodyFont, slide.accent_color,
                       <<"-- ">> \o escapeXml(slide.title)))

\* renderMinimalistFocus(slide, width, height, fonts)
renderMinimalistFocus(slide, width, height, fontsIn) ==
    LET padding == Min(width, height) * 1000
        titleSize == Min(width, height) * 600
        bodySize == Min(width, height) * 350
    IN <<background(slide, width, height),
         element("rect", "accent-element",
                 [x |-> padding, y |-> height * 4000, width |-> px(4),
                  height |-> height * 2000],
                 "", slide.accent_color, <<>>)>>
       \o when(slide.title # <<>>,
               element("text", "title-text",
                       [x |-> padding + px(20), y |-> height * 4500,
                        fontSize |-> titleSize],
                       fontsIn.headingFont, slide.font_color, escapeXml(slide.title)))
       \o when(slide.body_text # <<>>,
               element("foreignObject", "",
                       [x |-> padding + px(20), y |-> height * 5000,
                        width |-> px(width) - padding * 2 - px(20),
                        height |-> height * 3000, fontSize |-> bodySize],
                       fontsIn.bodyFont, slide.font_color, escapeXml(slide.body_text)))

\* The placeholders of the markup template with what replaces each, in the
\* order of the replacements; the style template takes the last six.
substitutions(slide, fontsIn) ==
    <<[token |-> "{{title}}", value |-> escapeXml(or(slide.title, <<>>))],
      [token |-> "{{body_text}}", value |-> escapeXml(or(slide.body_text, <<>>))],
      [token |-> "{{subtitle}}", value |-> escapeXml(or(slide.subtitle, <<>>))],
      [token |-> "{{quote}}", value |-> escapeXml(or(slide.quote, <<>>))],
      [token |-> "{{background_color}}", value |-> slide.background_color],
      [token |-> "{{font_color}}", value |-> slide.font_color],
      [token |-> "{{accent_color}}", value |-> slide.accent_color],
      [token |-> "{{heading_font}}", value |-> <<fontsIn.headingFont>>],
      [token |-> "{{body_font}}", value |-> <<fontsIn.bodyFont>>],
      [token |-> "{{accent_font}}", value |-> <<fontsIn.accentFont>>]>>

\* html = html.replace(...) for each substitution in turn.
RECURSIVE substitute(_, _)
substitute(template, subs) ==
    IF subs = <<>> THEN template
    ELSE substitute(replace(template, Head(subs).token, Head(subs).value), Tail(subs))

\* renderCustomLayout(slide, width, height, fonts, layout)
renderCustomLayout(slide, width, height, fontsIn, layout) ==
    LET subs == substitutions(slide, fontsIn)
        html == substitute(layout.htmlTemplate, subs)
        css == substitute(layout.cssTemplate, SubSeq(subs, 5, Len(subs)))
    IN <<background(slide, width, height),
         [tag |-> "foreignObject", id |-> "",
          geometry |-> [x |-> 0, y |-> 0, width |-> px(width), height |-> px(height)],
          css |-> css, html |-> html]>>

\* The identifiers of the built-in variants.
BuiltIn ==
    {<<"dictionary_entry">>, <<"bold_callout">>, <<"header_body">>,
     <<"quote_highlight">>, <<"minimalist_focus">>}

\* An id as it reads in a layout_type.
idText(id) == <<ToString(id)>>

\* getAllCustomLayouts().find((l) => l.id === layoutId), or NoValue.
findLayout(st, layoutId) ==
    IF \E i \in 1..Len(st.layouts) : idText(st.layouts[i].id) = layoutId
    THEN st.layouts[CHOOSE i \in 1..Len(st.layouts) :
                        /\ idText(st.layouts[i].id) = layoutId
                        /\ \A j \in 1..(i - 1) : idText(st.layouts[j].id) # layoutId]
    ELSE NoValue

\* renderLayoutContent whose fallback is the minimalist variant.
renderLayoutContentFocus(st, slide, width, height, fontsIn) ==
    CASE slide.layout_type = <<"dictionary_entry">> ->
            renderDictionaryEntry(slide, width, height, fontsIn)
      [] slide.layout_type = <<"bold_callout">> ->
            renderBoldCallout(slide, width, height, fontsIn)
      [] slide.layout_type = <<"header_body">> ->
            renderHeaderBody(slide, width, height, fontsIn)
      [] slide.layout_type = <<"quote_highlight">> ->
            renderQuoteHighlight(slide, width, height, fontsIn)
      [] slide.layout_type = <<"minimalist_focus">> ->
            renderMinimalistFocus(slide, width, height, fontsIn)
      [] OTHER ->
            LET layoutId == Tail(slide.layout_type)
                layout == IF startsWith(slide.layout_type, <<"custom-">>)
                          THEN findLayout(st, layoutId) ELSE NoValue
            IN IF layout # NoValue
               THEN renderCustomLayout(slide, width, height, fontsIn, layout)
               ELSE renderMinimalistFocus(slide, width, height, fontsIn)

\* renderLayoutContent(slide, width, height, fonts)
renderLayoutContent(st, slide, width, height, fontsIn) ==
    CASE slide.layout_type = <<"dictionary_entry">> ->
            renderDictionaryEntry(slide, width, height, fontsIn)
      [] slide.layout_type = <<"bold_callout">> ->
            renderBoldCallout(slide, width, height, fontsIn)
      [] slide.layout_type = <<"header_body">> ->
            renderHeaderBody(slide, width, height, fontsIn)
      [] slide.layout_type = <<"quote_highlight">> ->
            renderQuoteHighlight(slide, width, height, fontsIn)
      [] slide.layout_type = <<"minimalist_focus">> ->
            renderMinimalistFocus(slide, width, height, fontsIn)
      [] OTHER ->
            LET layoutId == Tail(slide.layout_type)
                layout == IF startsWith(slide.layout_type, <<"custom-">>)
                          THEN findLayout(st, layoutId) ELSE NoValue
            IN IF layout # NoValue
               THEN renderCustomLayout(slide, width, height, fontsIn, layout)
               ELSE renderHeaderBody(slide, width, height, fontsIn)

\* generateFontFaceCSS(font): the @font-face rule of a stored font.
generateFontFaceCSS(font) ==
    [fontFace |-> font.family, format |-> font.format, src |-> font.base64Data]

\* generateEmbeddedFontCSS(fontSettings): the rules of the stored custom
\* fonts whose family is in use, then a comment per external family in use.
generateEmbeddedFontCSS(st, settings) ==
    LET usedFonts == {settings.headingFont, settings.bodyFont,
                      settings.accentFont}
        custom == SelectSeq(st.fonts, LAMBDA font : font.family \in usedFonts)
        google == SelectSeq(settings.googleFonts, LAMBDA family : family \in usedFonts)
    IN [k \in 1..Len(custom) |-> generateFontFaceCSS(custom[k])]
       \o [k \in 1..Len(google) |-> [comment |-> google[k]]]

\* The field-to-element table of the metadata block.
Variables ==
    <<[name |-> "title", element |-> "title-text", attr |-> ""],
      [name |-> "body_text", element |-> "body-text", attr |-> ""],
      [name |-> "subtitle", element |-> "subtitle-text", attr |-> ""],
      [name |-> "quote", element |-> "quote-text", attr |-> ""],
      [name |-> "background_color", element |-> "background", attr |-> "fill"],
      [name |-> "font_color", element |-> "title-text", attr |-> "fill"],
      [name |-> "accent_color", element |-> "accent-element", attr |-> "fill"]>>

\* generateMetadata(slide)
generateMetadata(slide) ==
    [layout |-> escapeXml(slide.layout_type),
     carousel_id |-> escapeXml(slide.carousel_id),
     slide_number |-> slide.slide_number,
     variables |-> Variables]

\* slideToSvg(slide, preset, options): the document, part by part.
slideToSvg(st, defaults, slide, preset, options) ==
    LET settings == getFontSettings(st, defaults)
        fontCSS == generateEmbeddedFontCSS(st, settings)
        layoutContent ==
            renderLayoutContent(st, slide, preset.width, preset.height, settings)
        metadata == IF options.includeMetadata # FALSE
                    THEN generateMetadata(slide) ELSE NoValue
    IN [geometry |-> [width |-> px(preset.width), height |-> px(preset.height)],
        fontCSS |-> fontCSS, metadata |-> metadata, layoutContent |-> layoutContent]

\* The slides the codec is called with: every built-in variant, a custom
\* variant no layout is stored for and an unknown identifier, each text
\* field missing or present, a body of two lines with a reserved character.
Slide(layout_type, title, subtitle, body_text, quote) ==
    [layout_type |-> layout_type, title |-> title, subtitle |-> subtitle,
     body_text |-> body_text, quote |-> quote,
     background_color |-> <<"#fff">>, font_color |-> <<"#000">>,
     accent_color |-> <<"#f00">>, carousel_id |-> <<"c", "&", "1">>,
     slide_number |-> 1]

UnknownLayouts == {<<"custom-", "9">>, <<"mystery">>}

CodecSlides ==
    {Slide(l, t, s, b, q) :
        l \in BuiltIn \cup UnknownLayouts, t \in {<<>>, <<"T">>}, s \in {<<>>, <<"S">>},
        b \in {<<>>, <<"B">>, <<"B", "\n", "<">>}, q \in {<<>>, <<"Q">>}}

Presets ==
    {[id |-> "square", width |-> 1080, height |-> 1080],
     [id |-> "portrait", width |-> 1080, height |-> 1350]}

\* What a slideToSvg call is given, the font settings it reads included.
EncodeInput(slide, preset, includeMetadata) ==
    [slide |-> slide, preset |-> preset, includeMetadata |-> includeMetadata,
     fontSettings |-> getFontSettings(Store, defaultSettings)]

SlideToSvg ==
    \E slide \in CodecSlides, preset \in Presets, includeMetadata \in BOOLEAN :
        Called("slideToSvg", EncodeInput(slide, preset, includeMetadata),
               slideToSvg(Store, defaultSettings, slide, preset,
                          [includeMetadata |-> includeMetadata]))

\* The slides an export encodes while layouts and fonts come and go: one of
\* the custom variant of layout 1, one of an unknown identifier.
EncodeSlides ==
    {Slide(l, <<"T">>, <<>>, <<"B">>, <<>>) : l \in {<<"custom-", "1">>, <<"mystery", "&">>}}

\* slideToSvg called by an export; `earlier` is the call before this one.
EncodeSlide ==
    \E slide \in EncodeSlides, preset \in {p \in Presets : p.id = "square"} :
        /\ codec' = [op |-> "encodeSlide",
                     in |-> EncodeInput(slide, preset, TRUE),
                     out |-> slideToSvg(Store, defaultSettings, slide, preset,
                                        [includeMetadata |-> TRUE]),
                     earlier |-> IF codec.op = "encodeSlide"
                                 THEN [in |-> codec.in, out |-> codec.out]
                                 ELSE NoValue]
        /\ UNCHANGED <<ctlVars, obsVars, storeVars, settingsVars, mainVars, accessVars>>

\* Exports between saves and deletes of custom layouts and fonts.
NextEncode ==
    \/ SaveCustomLayout
    \/ DeleteCustomLayout
    \/ SaveCustomFont
    \/ DeleteCustomFont
    \/ EncodeSlide

\* The custom layouts rendered, placeholders in their markup and in their
\* style, and the slides rendered with them: plain values, a value with a
\* reserved character, a value that reads like a placeholder and a value
\* with '$&'.
CustomLayouts ==
    [id : {1},
     htmlTemplate : {<<"{{title}}">>, <<"{{title}}", "x", "{{title}}", "{{body_text}}">>,
                     <<"{{heading_font}}", "{{accent_color}}", "{{quote}}">>},
     cssTemplate : {<<>>, <<"{{accent_color}}", "{{body_font}}", "{{accent_color}}">>,
                    <<"{{title}}">>}]

CustomSlides ==
    {Slide(<<"custom-", "1">>, t, <<"S">>, b, <<"Q">>) :
        t \in {<<"T">>, <<"<">>, <<"{{body_text}}">>, <<"$", "&">>},
        b \in {<<>>, <<"B">>}}

RenderCustomLayout ==
    \E slide \in CustomSlides, preset \in Presets, layout \in CustomLayouts :
        LET settings == getFontSettings(Store, defaultSettings) IN
        Called("renderCustomLayout",
               [slide |-> slide, preset |-> preset, layout |-> layout,
                fontSettings |-> settings],
               [content |-> renderCustomLayout(slide, preset.width, preset.height,
                                               settings, layout)])

\* The pure functions of the codec, called on a store that holds nothing.
NextCodec ==
    \/ GenerateSlideFilename
    \/ EscapeXml
    \/ SlideToSvg
    \/ RenderCustomLayout

\* An empty localStorage.
InitStorage ==
    /\ projects = <<>>
    /\ layouts = <<>>
    /\ fonts = <<>>
    /\ now = 0
    /\ res = [op |-> "none", status |-> "ok"]
    /\ ops = 0

\* The project operations, with the fonts sharing the capacity.
NextStorage ==
    \/ Tick
    \/ SaveProject
    \/ DeleteProject
    \/ DuplicateProject
    \/ CreateNewProject
    \/ RenameProject
    \/ SaveCustomFont
    \/ DeleteCustomFont

\* The project operations, and the summaries read between them.
NextMetadata ==
    \/ Tick
    \/ SaveProject
    \/ DeleteProject
    \/ DuplicateProject
    \/ CreateNewProject
    \/ RenameProject
    \/ GetProjectMetadata

\* The writes that rewrite a list collection, and the deletes.
NextCollections ==
    \/ SaveProject
    \/ DeleteProject
    \/ SaveCustomLayout
    \/ DeleteCustomLayout
    \/ SaveCustomFont
    \/ DeleteCustomFont

(* ------------------------------------------------- the storage accessor *)

\* let storageProvider: StorageProvider | null = null
InitAccess ==
    /\ storageProvider = NoValue
    /\ electronAPI = FALSE
    /\ created = 0
    /\ got = <<>>

\* new FileSystemProvider() or new LocalStorageProvider(): the n-th object
\* constructed, distinct from every object constructed before it.
new(class, n) == [class |-> class, object |-> n]

\* getStorage that looks at the bridge on every call.
getStorageAnew(provider, bridge, n) ==
    LET chosen == IF bridge THEN new("FileSystemProvider", n + 1)
                  ELSE new("LocalStorageProvider", n + 1)
    IN [storageProvider |-> chosen, created |-> n + 1, value |-> chosen]

\* getStorage() with the module variable `provider`, the bridge present or
\* not, and n objects constructed so far: the new value of the module
\* variable, the objects constructed, and the value returned.
getStorage(provider, bridge, n) ==
    IF provider # NoValue
    THEN [storageProvider |-> provider, created |-> n, value |-> provider]
    ELSE LET chosen == IF bridge THEN new("FileSystemProvider", n + 1)
                       ELSE new("LocalStorageProvider", n + 1)
         IN [storageProvider |-> chosen, created |-> n + 1, value |-> chosen]

\* A caller obtains the provider.
GetStorage ==
    LET r == getStorage(storageProvider, electronAPI, created) IN
    /\ Len(got) < MaxGets
    /\ r.created <= MaxInstances
    /\ storageProvider' = r.storageProvider
    /\ created' = r.created
    /\ got' = Append(got, [value |-> r.value, bridge |-> electronAPI])
    /\ UNCHANGED <<electronAPI, ctlVars, obsVars, storeVars, settingsVars,
                   mainVars, codecVars>>

\* resetStorageProvider()
ResetStorageProvider ==
    /\ storageProvider' = NoValue
    /\ got' = <<>>
    /\ UNCHANGED <<electronAPI, created, ctlVars, obsVars, storeVars,
                   settingsVars, mainVars, codecVars>>

\* The host bridge appears on, or disappears from, the window object.
SetElectronAPI ==
    /\ electronAPI' = ~electronAPI
    /\ UNCHANGED <<storageProvider, created, got, ctlVars, obsVars, storeVars,
                   settingsVars, mainVars, codecVars>>

NextAccess == GetStorage \/ ResetStorageProvider \/ SetElectronAPI

(* ------------------------------------------------------- specifications *)

InitExt == InitFontSettings /\ InitRecent /\ InitDisk /\ InitCodec /\ InitAccess

Init == InitAutoSave /\ InitStorage /\ InitExt

\* The Autosave Controller against an abstract Storage Provider.
Spec == Init /\ [][NextAutoSave]_vars

\* The LocalStorageProvider under a single caller.
InitProvider == Init /\ project = NoProject /\ enabled = TRUE

SpecStorage == InitProvider /\ [][NextStorage]_vars

\* The three list collections of the LocalStorageProvider.
SpecCollections == InitProvider /\ [][NextCollections]_vars

\* The accessor of the process-wide Storage Provider.
SpecAccess == Init /\ [][NextAccess]_vars

\* The font settings record of the LocalStorageProvider.
SpecFontSettings == InitProvider /\ [][NextFontSettings]_vars

\* The recent-projects list under two concurrent recent:add requests.
SpecRace == InitProvider /\ [][NextRace]_vars

\* The recent-projects list of the main process, one request at a time.
SpecRecent == InitProvider /\ [][NextRecent]_vars

\* The filesystem bridge of the main process.
SpecFs == InitProvider /\ [][NextFs]_vars

\* The export and import handlers of the main process.
SpecExport == InitProvider /\ [][NextExport]_vars

\* The project summaries of the LocalStorageProvider.
SpecMetadata == InitProvider /\ [][NextMetadata]_vars

\* The creating operations of the LocalStorageProvider.
SpecCreate == InitProvider /\ [][NextCreate]_vars

\* The font uploads of the LocalStorageProvider.
SpecUpload == InitProvider /\ [][NextUpload]_vars

\* The Document Codec under an export, the store changing between calls.
SpecEncode == InitProvider /\ [][NextEncode]_vars

\* The Document Codec on its own.
SpecCodec == InitProvider /\ [][NextCodec]_vars

(* ------------------------------------------------ the Autosave Controller *)

\* The content of the call a step issued last.
IssuedVer == calls'[Len(calls')].ver

\* No outstanding call carries the current project content.
NotInFlight == \A i \in 1..Len(calls) : calls[i].ver # project

\* C1: after a single edit that found the controller idle, with no further
\* edit, manual save or teardown, a saveProject call is issued once the
\* debounce delay has elapsed: until the timer has fired it is armed, and
\* once it has fired a call has been issued.
C1_SingleEditIsSaved ==
    (scn.on /\ scn.edits = 1) =>
        (IF scn.fired THEN scn.calls >= 1 ELSE timerPending)

\* C2: two markChanged within one debounce window, starting idle, lead to
\* exactly one saveProject call: never to more than one.
C2_TwoEditsOneSave ==
    (scn.on /\ scn.edits = 2) => scn.calls <= 1

\* C3: at every moment at most one saveProject call of the controller is
\* outstanding.
C3_AtMostOneOutstanding == Len(calls) <= 1

\* C4: an edit that arrives while a save is in flight is not lost: as long
\* as no call has started after it (and no further edit, manual save or
\* teardown has happened), a debounce timer is pending or a call is still
\* outstanding whose settling could start one.
C4_MidSaveEditNotLost ==
    midSave => (timerPending \/ calls # <<>>)

\* C5: saveNow with a project loaded and unsaved changes that no outstanding
\* call carries leaves no debounce timer armed and starts a saveProject call
\* for the current project at once.
C5_SaveNowFlushes ==
    [][(last'.op = "saveNow" /\ project # NoProject /\ hasUnsavedChanges /\ NotInFlight)
          => (~timerPending' /\ last'.issued = 1 /\ IssuedVer = project)]_vars

\* C6: teardown cancels the pending debounce timer and, when a project is
\* loaded (auto-save enabled) and its current content is neither persisted
\* nor carried by an outstanding call, attempts one final saveProject call
\* with the current project.
C6_TeardownSaves ==
    [][(last'.op = "unmount" /\ enabled /\ project # NoProject
            /\ persisted # project /\ NotInFlight)
          => (~timerPending' /\ last'.issued = 1 /\ IssuedVer = project)]_vars

\* C7 (as stated): after a failed controller save no saveProject call is
\* issued until the next edit or manual save.
C7_NoCallAfterFailure ==
    afterFail # "no" => last.issued = 0

\* C7 (amended): a failed controller save sets saveStatus to 'error', leaves
\* hasUnsavedChanges as it was, clears the in-flight flag, invokes onError,
\* issues no call and arms no timer; if no debounce timer was pending when
\* it failed, no call is issued and no timer gets armed until the next
\* edit, manual save or teardown.
C7_FailureDoesNotRetry ==
    [][/\ (last'.op = "saveFail" /\ mounted) =>
            /\ saveStatus' = "error"
            /\ hasUnsavedChanges' = hasUnsavedChanges
            /\ ~isSavingRef'
            /\ last'.cb = "onError"
            /\ last'.issued = 0
            /\ timerPending' = timerPending
       /\ afterFail' = "quiet" => (last'.issued = 0 /\ ~timerPending')]_vars

\* C7: a controller save has just failed with unsaved changes and no timer pending.
C7_Witness ==
    /\ last.op = "saveFail" /\ mounted /\ saveStatus = "error"
    /\ hasUnsavedChanges /\ afterFail = "quiet" /\ calls = <<>>

(* ---------------------------------------------- the LocalStorageProvider *)

\* What one project takes in the serialized collection.
ProjectSize(p) == estimateDataSize(<<p>>, Carousels)

\* The store after a saveProject(p) that starts now, and how the call ends.
Saved(p) == saveProject(Store, p, now)

\* C8: with total T and used U, saveProject of a project whose serialized
\* size exceeds T - U fails with a quota-exceeded error and leaves the
\* persisted projects (and every other key) exactly as they were.
C8_QuotaEnforced ==
    \A p \in ProjectArgs :
        ProjectSize(p) > getStorageQuota(Store).available =>
            /\ Saved(p).status = "QuotaExceeded"
            /\ Saved(p).st = Store

\* C8: a saveProject call was just refused in a store with no space left
\* for any project.
C8_Witness ==
    /\ res = [op |-> "saveProject", status |-> "QuotaExceeded"]
    /\ projects # <<>>
    /\ \A p \in ProjectArgs : ProjectSize(p) > getStorageQuota(Store).available

\* C9: each of saveProject, saveCustomLayout and saveCustomFont compares the
\* estimated size of the whole collection after the upsert with
\* (total - used) first: a call that wrote had that much space, and a call
\* that did not write failed with quota-exceeded and changed nothing.
C9_EveryListWriteChecksQuota ==
    [][\A k \in {<<"saveProject", "projects">>, <<"saveCustomLayout", "layouts">>,
                 <<"saveCustomFont", "fonts">>} :
          (ops' = ops + 1 /\ res'.op = k[1]) =>
              /\ res'.status \in {"ok", "QuotaExceeded"}
              /\ res'.status = "ok" =>
                    KeySize(Store', k[2]) <= getStorageQuota(Store).available
              /\ res'.status # "ok" => Store' = Store]_vars

\* C10: the persisted projects hold at most one entry per id, and a
\* saveProject(p) that succeeds leaves p (with its modifiedAt set) as the
\* project of that id, in the place of the entry that had the id, or at
\* the end if none had, every other entry being as it was.
C10_SaveIsUpsert ==
    /\ \A i, j \in 1..Len(projects) : projects[i].id = projects[j].id => i = j
    /\ \A p \in ProjectArgs :
          LET out == Saved(p)
              after == out.st.projects
              saved == [p EXCEPT !.modifiedAt = now]
              at == findIndex(projects, p.id)
          IN out.status = "ok" =>
                /\ getProject(out.st, p.id) = saved
                /\ Len(after) = (IF at > 0 THEN Len(projects) ELSE Len(projects) + 1)
                /\ after[IF at > 0 THEN at ELSE Len(after)] = saved
                /\ \A i \in 1..Len(projects) : i # at => after[i] = projects[i]

\* C10: a saveProject has just replaced the first of two entries in place.
C10_Witness ==
    /\ res = [op |-> "saveProject", status |-> "ok"]
    /\ Len(projects) = 2
    /\ projects[1].modifiedAt > projects[2].modifiedAt

\* The store after a duplicateProject(id) that starts now, and how it ends.
Duplicated(id) == duplicateProject(Store, id, now)

\* The copy duplicateProject(id) is to persist for the stored project `source`.
CopyOf(source) ==
    [source EXCEPT !.id = Append(@, now), !.name = @ \o " (Copy)",
                   !.createdAt = now, !.modifiedAt = now]

\* C11: a duplicateProject(id) of a stored project that succeeds persists
\* one additional entry (id: the source id and a suffix, name: the source
\* name and ' (Copy)', createdAt and modifiedAt: the time of the call,
\* carousels: the source's), every entry that was stored being as it was;
\* and a later save of the source or of the copy leaves the other as it is.
C11_DuplicateAddsIndependentCopy ==
    \A i \in 1..Len(projects) :
        LET source == projects[i]
            out == Duplicated(source.id)
            after == out.st.projects
        IN out.status = "ok" =>
              /\ after = Append(projects, CopyOf(source))
              /\ \A n \in Names, k \in CarouselLists :
                    LET edit(p) == [p EXCEPT !.name = n, !.carousels = k]
                        s1 == saveProject(out.st, edit(source), now).st
                        s2 == saveProject(out.st, edit(CopyOf(source)), now).st
                    IN /\ getProject(s1, CopyOf(source).id) = CopyOf(source)
                       /\ getProject(s2, source.id) = source

\* The ids of created projects and of copies that no persisted project has.
AbsentIds ==
    (FreshIds \cup {Append(id, t) : id \in FreshIds, t \in Times}) \ StoredIds

\* C12: renameProject(id, newName) and duplicateProject(id) with an id that
\* no persisted project has raise 'Project not found' and leave the
\* persisted projects (and every other key) as they were.
C12_AbsentIdIsNotFound ==
    \A id \in AbsentIds :
        /\ Duplicated(id).status = "NotFound"
        /\ Duplicated(id).st = Store
        /\ \A n \in Names :
              /\ renameProject(Store, id, n, now).status = "NotFound"
              /\ renameProject(Store, id, n, now).st = Store

\* C12: a renameProject of an absent id was just refused although
\* projects are stored and there is room for another.
C12_Witness ==
    /\ res = [op |-> "renameProject", status |-> "NotFound"]
    /\ projects # <<>>
    /\ AbsentIds # {}
    /\ hasEnoughSpace(Store, KeySize(Store, "projects") + 1)

\* The operations that persist a project through saveProject.
ProjectWrites == {"saveProject", "createNewProject", "renameProject", "duplicateProject"}

\* The entries of a collection, as a set.
Entries(items) == {items[i] : i \in 1..Len(items)}

\* C13: every successful write of a project stores it with modifiedAt equal
\* to the time of the write, so under the non-decreasing clock the
\* modifiedAt stored for an id never decreases, and it is never earlier
\* than the project's createdAt (nor later than the clock).
C13_ModifiedAtIsWriteTime ==
    /\ [](\A i \in 1..Len(projects) :
            /\ projects[i].createdAt <= projects[i].modifiedAt
            /\ projects[i].modifiedAt <= now)
    /\ [][(ops' = ops + 1 /\ res'.op \in ProjectWrites /\ res'.status = "ok") =>
            /\ \E p \in Entries(projects') : p.modifiedAt = now
            /\ \A p \in Entries(projects') \ Entries(projects) : p.modifiedAt = now
            /\ \A p \in Entries(projects), q \in Entries(projects') :
                  p.id = q.id => q.modifiedAt >= p.modifiedAt]_vars

\* C13: a project created at an earlier time was just renamed.
C13_Witness ==
    /\ res = [op |-> "renameProject", status |-> "ok"]
    /\ \E p \in Entries(projects) : p.createdAt < p.modifiedAt /\ p.modifiedAt = now

\* C14: getFontSettings returns the value of the last saveFontSettings that
\* succeeded, or the built-in defaults if none has: a saveFontSettings,
\* addGoogleFont or removeGoogleFont that fails does not change what
\* getFontSettings returns.
C14_SettingsAreLastSaved ==
    getFontSettings(Store, defaultSettings) = savedSettings

(* ------------------------------------------------- the main process *)

\* The paths of a recent-projects list, in its order.
Paths(recent) == [i \in 1..Len(recent) |-> recent[i].path]

\* The paths of a log of requests, most recent first, each once.
RECURSIVE MostRecentFirst(_)
MostRecentFirst(log) ==
    IF log = <<>> THEN <<>>
    ELSE <<Head(log)>> \o MostRecentFirst(SelectSeq(Tail(log), LAMBDA p : p # Head(log)))

\* C15: after any sequence of completed recent:add and recent:clear
\* requests the list has at most 10 entries and no path twice, and holds
\* the paths added since the last clear, most recently added first, cut to
\* the 10 most recent: the latest added path is first, an 11th distinct
\* path drops the least recently added one, and a path added again moves
\* to the front without the list growing.
C15_RecentListIsBoundedMru ==
    LET recent == recentGet(recentFile) IN
    /\ Len(recent) <= 10
    /\ \A i, j \in 1..Len(recent) : recent[i].path = recent[j].path => i = j
    /\ Paths(recent) = slice(MostRecentFirst(recentObs.log), 10)
    /\ recentObs.log # <<>> => recent[1].path = recentObs.log[1]

\* C15: eleven distinct paths were added and one of them again: the list
\* is full and has dropped its oldest entry.
C15_Witness ==
    /\ Len(recentGet(recentFile)) = 10
    /\ Len(recentObs.log) = 12
    /\ reply.request = "recent:add"
    /\ reply.result.success

FsReads == {"fs:readFile", "fs:readBinaryFile", "fs:readDir"}
FsWrites == {"fs:writeFile", "fs:writeBinaryFile"}
FsRequests == FsReads \cup FsWrites \cup {"fs:deleteFile", "fs:mkdir", "fs:rmdir"}

\* The fields of a result.
Fields(result) == DOMAIN result

\* C18: every fs handler returns a result and never raises: success=true
\* without an error (with data, for the reads), or success=false with an
\* error description when a file operation fails; a write whose target's ancestors are missing (none of
\* them a file, the target no directory, the disk without fault) creates
\* them and then writes the file; fs:rmdir of a path that does not exist
\* returns success and changes nothing.
C18_FsHandlersReturnResults ==
    [][(requests' = requests + 1 /\ reply'.request \in FsRequests) =>
        LET result == reply'.result
            p == asked'.path
        IN /\ result.success \in BOOLEAN
           /\ result.success => "error" \notin Fields(result)
           /\ (result.success /\ reply'.request \in FsReads) => "data" \in Fields(result)
           /\ ~result.success => Fields(result) = {"success", "error"}
           /\ asked'.io # "ok" =>
                 /\ disk' = disk
                 /\ ~result.success \/ (reply'.request = "fs:mkdir" /\ asked'.existed)
           /\ (/\ reply'.request \in FsWrites
               /\ asked'.io = "ok"
               /\ ~isDirectory(disk, p)
               /\ \A k \in 1..(Len(p) - 1) : ~isFile(disk, SubSeq(p, 1, k)))
              => /\ result.success
                 /\ \A k \in 1..(Len(p) - 1) : isDirectory(disk', SubSeq(p, 1, k))
                 /\ File(p, IF reply'.request = "fs:writeFile" THEN asked'.data
                            ELSE fromBase64(asked'.data)) \in disk'
           /\ (reply'.request = "fs:rmdir" /\ asked'.io = "ok" /\ ~asked'.existed)
              => result.success /\ disk' = disk]_vars

\* C18: a write into a directory that did not exist has just succeeded.
C18_Witness ==
    /\ reply.request = "fs:writeFile"
    /\ reply.result.success
    /\ ~asked.dirExisted
    /\ isDirectory(disk, dirname(asked.path))
    /\ isFile(disk, asked.path)

\* C16: in an import of n selected documents of which k cannot be read,
\* the k failures are not fatal to the batch: the request succeeds and
\* returns the other n - k documents.
C16_ImportPartiallySucceeds ==
    (reply.request = "import:figmaSvg" /\ ~asked.canceled) =>
        /\ reply.result.success
        /\ Len(reply.result.files) = asked.selected - asked.failing

\* The three handlers that show a picker.
PickerRequests == {"export:saveSvg", "export:saveProjectFolder", "import:figmaSvg"}

\* C17: when the user dismisses the picker of export:saveSvg,
\* export:saveProjectFolder or import:figmaSvg the result is success=false,
\* canceled=true without an error description and the disk is as it was;
\* no result carries both canceled=true and an error description, and a
\* request whose picker was not dismissed, a failing one included, is not
\* reported as canceled.
C17_CanceledIsNotAnError ==
    [][(requests' = requests + 1 /\ reply'.request \in PickerRequests) =>
        LET result == reply'.result IN
        /\ asked'.canceled =>
              /\ result = [success |-> FALSE, canceled |-> TRUE]
              /\ disk' = disk
        /\ ~("canceled" \in Fields(result) /\ "error" \in Fields(result))
        /\ ~asked'.canceled => "canceled" \notin Fields(result)
        /\ (~asked'.canceled /\ asked'.io # "ok") =>
              Fields(result) = {"success", "error"} /\ ~result.success]_vars

\* C17: a folder export was dismissed after files had been written.
C17_Witness ==
    /\ reply.request = "export:saveProjectFolder"
    /\ asked.canceled
    /\ reply.result = [success |-> FALSE, canceled |-> TRUE]
    /\ FilePaths(disk) # {}

\* The entries of a sequence, as a set.
Range(seq) == {seq[i] : i \in 1..Len(seq)}

\* C19: after a successful folder export no two slides were written to
\* the same path: the number of files written is the number of slides
\* exported, whatever the names of the carousels.
C19_ExportPathsAreDistinct ==
    (reply.request = "export:saveProjectFolder" /\ reply.result.success) =>
        /\ Len(asked.written) = SlideCount(asked.options.carousels)
        /\ Cardinality(Range(asked.written)) = SlideCount(asked.options.carousels)

\* A name made of characters of [A-Za-z0-9_-] only.
IsSanitized(name) == \A i \in 1..Len(name) : name[i] \in SafeChars

\* C20: every file a folder export writes is at
\* <root>/<project>/<carousel>/<file> with both directory names sanitized,
\* hence inside the export root the user chose.
C20_ExportStaysInsideRoot ==
    (reply.request = "export:saveProjectFolder" /\ ~asked.canceled) =>
        \A p \in Range(asked.written) :
            /\ IsPrefix(asked.root, p)
            /\ Len(p) = Len(asked.root) + 3
            /\ IsSanitized(p[Len(asked.root) + 1])
            /\ IsSanitized(p[Len(asked.root) + 2])


(* ---------------------------------------------------- the Document Codec *)

\* The name with every character outside [A-Za-z0-9_-] stripped.
strip(name) == SelectSeq(name, LAMBDA c : c \in SafeChars)

\* C21: generateSlideFilename returns '<safe>-slide-<NNN>.<format>', <safe>
\* being the carousel name with every character outside [A-Za-z0-9_-]
\* stripped and <NNN> the slide number zero-padded to three digits.
C21_FilenameStripsUnsafe ==
    codec.op = "generateSlideFilename" =>
        codec.out.name = strip(codec.in.carouselName)
                         \o <<"-slide-", padStart3(codec.in.slide_number), ".",
                              codec.in.format>>


\* The layout_type resolves: it is 'custom-' and the id of a stored layout.
Resolves(st, layout_type) ==
    /\ startsWith(layout_type, <<"custom-">>)
    /\ \E i \in 1..Len(st.layouts) : <<"custom-">> \o idText(st.layouts[i].id) = layout_type

\* C22: a slide whose layout_type is no built-in identifier and resolves to
\* no stored custom layout is encoded without failing, its content being
\* that of the header_body variant and the metadata block recording the
\* layout_type as it is.
C22_UnknownLayoutFallsBack ==
    [][(codec' # codec /\ codec'.op = "encodeSlide") =>
          LET slide == codec'.in.slide
              preset == codec'.in.preset
          IN (slide.layout_type \notin BuiltIn /\ ~Resolves(Store, slide.layout_type)) =>
                /\ codec'.out.layoutContent
                      = renderHeaderBody([slide EXCEPT !.layout_type = <<"header_body">>],
                                         preset.width, preset.height, codec'.in.fontSettings)
                /\ codec'.out.metadata # NoValue
                /\ unescapeXml(codec'.out.metadata.layout) = slide.layout_type]_vars

\* C22: the slide of a custom layout that was rendered by its template is
\* encoded again after the layout was deleted, and falls back.
C22_Witness ==
    /\ codec.op = "encodeSlide"
    /\ codec.in.slide.layout_type = <<"custom-", "1">>
    /\ ~Resolves(Store, codec.in.slide.layout_type)
    /\ res.op = "deleteCustomLayout"
    /\ codec.earlier # NoValue
    /\ codec.earlier.in.slide = codec.in.slide
    /\ codec.earlier.out.layoutContent[2].tag = "foreignObject"
    /\ codec.out.layoutContent[2].id = "title-text"


\* The reserved characters, and the text fields of a slide.
Reserved == {"&", "<", ">", "\"", "'"}
TextFields(slide) == <<slide.title, slide.subtitle, slide.body_text, slide.quote>>

\* Embedded text holds no reserved character but the '&' an entity starts with.
NoRawReserved(text) ==
    \A i \in 1..Len(text) :
        /\ text[i] \notin Reserved \ {"&"}
        /\ text[i] = "&" =>
              \E e \in Entities : startsWith(SubSeq(text, i, Len(text)), e.entity)

\* C23: the text escapeXml returns holds no raw reserved character and
\* unescapes to the original value; and the document of a slide gives its
\* title, subtitle, body_text and quote back: no slide of the same variant
\* with other values in these fields has the same document.
C23_EscapingIsLossless ==
    /\ codec.op = "escapeXml" =>
          /\ NoRawReserved(codec.out.text)
          /\ unescapeXml(codec.out.text) = codec.in.text
    /\ (codec.op = "slideToSvg" /\ codec.in.includeMetadata) =>
          \A other \in CodecSlides :
              (/\ other.layout_type = codec.in.slide.layout_type
               /\ TextFields(other) # TextFields(codec.in.slide)) =>
                  slideToSvg(Store, defaultSettings, other, codec.in.preset,
                             [includeMetadata |-> TRUE]) # codec.out

\* The escaping alone: what C23 says of escapeXml.
EscapeXmlIsInvertible ==
    codec.op = "escapeXml" =>
        /\ NoRawReserved(codec.out.text)
        /\ unescapeXml(codec.out.text) = codec.in.text


\* A template with each placeholder replaced by its value, literally: the
\* units of the template are looked at once, the inserted text never.
Literal(template, subs) ==
    LET valueOf(unit) ==
            IF \E k \in 1..Len(subs) : subs[k].token = unit
            THEN subs[CHOOSE k \in 1..Len(subs) : subs[k].token = unit].value
            ELSE <<unit>>
        out[n \in 0..Len(template)] ==
            IF n = 0 THEN <<>> ELSE out[n - 1] \o valueOf(template[n])
    IN out[Len(template)]

\* C24: rendering a custom variant replaces every occurrence of each
\* {{field}} and {{settingName}} placeholder in the markup template and in
\* the style template by its value, text fields escaped first, and the
\* text inserted for a placeholder is neither substituted nor interpreted.
C24_SubstitutionIsLiteral ==
    codec.op = "renderCustomLayout" =>
        LET subs == substitutions(codec.in.slide, codec.in.fontSettings)
            rendered == codec.out.content[2]
        IN /\ rendered.html = Literal(codec.in.layout.htmlTemplate, subs)
           /\ rendered.css = Literal(codec.in.layout.cssTemplate, subs)

\* What C24 says of plain values and of the placeholders the style
\* template is searched for.
PlainSubstitutionIsLiteral ==
    (/\ codec.op = "renderCustomLayout"
     /\ codec.in.slide.title \in {<<"T">>, <<"<">>}
     /\ codec.in.layout.cssTemplate # <<"{{title}}">>) =>
        LET subs == substitutions(codec.in.slide, codec.in.fontSettings)
            rendered == codec.out.content[2]
        IN /\ rendered.html = Literal(codec.in.layout.htmlTemplate, subs)
           /\ rendered.css = Literal(codec.in.layout.cssTemplate, subs)


\* The slide with a value in each text field it lacks.
Filled(slide) ==
    [slide EXCEPT !.title = or(@, <<"T">>), !.subtitle = or(@, <<"S">>),
                  !.body_text = or(@, <<"B">>), !.quote = or(@, <<"Q">>)]

\* C25: a built-in variant renders whatever optional fields are missing or
\* empty; no text element of the output has empty content, and every
\* element of the output is an element of the output with no field absent.
C25_AbsentFieldsAreOmitted ==
    (codec.op = "slideToSvg" /\ codec.in.slide.layout_type \in BuiltIn) =>
        LET content == codec.out.layoutContent
            full == slideToSvg(Store, defaultSettings, Filled(codec.in.slide),
                               codec.in.preset, [includeMetadata |-> TRUE]).layoutContent
        IN /\ \A k \in 1..Len(content) :
                 content[k].tag \in {"text", "foreignObject"} => content[k].text # <<>>
           /\ Range(content) \subseteq Range(full)

\* What C25 says of the variants that test each field before its element.
TestedFieldsAreOmitted ==
    (/\ codec.op = "slideToSvg"
     /\ codec.in.slide.layout_type
            \in {<<"dictionary_entry">>, <<"header_body">>, <<"minimalist_focus">>}) =>
        LET content == codec.out.layoutContent
            full == slideToSvg(Store, defaultSettings, Filled(codec.in.slide),
                               codec.in.preset, [includeMetadata |-> TRUE]).layoutContent
        IN /\ \A k \in 1..Len(content) :
                 content[k].tag \in {"text", "foreignObject"} => content[k].text # <<>>
           /\ Range(content) \subseteq Range(full)


\* The preset of twice the width and twice the height.
Doubled(preset) == [preset EXCEPT !.width = 2 * @, !.height = 2 * @]

\* Every length of the document `twice` is twice that length of `once`.
Scales(once, twice) ==
    /\ twice.geometry.width = 2 * once.geometry.width
    /\ twice.geometry.height = 2 * once.geometry.height
    /\ Len(twice.layoutContent) = Len(once.layoutContent)
    /\ \A k \in 1..Len(once.layoutContent) :
          LET g == once.layoutContent[k].geometry
              h == twice.layoutContent[k].geometry
          IN DOMAIN h = DOMAIN g /\ \A q \in DOMAIN g : h[q] = 2 * g[q]

\* C26: for every built-in variant and every slide, each length computed
\* for the encoding at (2 * width, 2 * height) -- coordinates, offsets,
\* widths, heights, font sizes, padding, stroke widths -- is twice the
\* length computed at (width, height).
C26_DoublingDoublesGeometry ==
    (codec.op = "slideToSvg" /\ codec.in.slide.layout_type \in BuiltIn) =>
        Scales(codec.out,
               slideToSvg(Store, defaultSettings, codec.in.slide,
                          Doubled(codec.in.preset),
                          [includeMetadata |-> codec.in.includeMetadata]))

\* What C26 says of the one variant that computes every length from the
\* width and the height.
BoldCalloutScales ==
    (codec.op = "slideToSvg" /\ codec.in.slide.layout_type = <<"bold_callout">>) =>
        Scales(codec.out,
               slideToSvg(Store, defaultSettings, codec.in.slide,
                          Doubled(codec.in.preset),
                          [includeMetadata |-> codec.in.includeMetadata]))


\* C27: two slideToSvg calls with the same slide, preset, FontSettings and
\* includeMetadata flag return the same document, whatever the clock shows
\* and whatever fonts and custom layouts were saved or deleted in between.
C27_EncodingIsDeterministic ==
    (/\ codec.op = "encodeSlide"
     /\ codec.earlier # NoValue
     /\ codec.earlier.in = codec.in) =>
        codec.earlier.out = codec.out


(* ------------------------------------------------------- the font uploads *)

\* The extension of a file name: what follows its last '.', nothing if the
\* name has no '.'.
ExtensionOf(name) ==
    IF lastDot(name) = 0 THEN <<>> ELSE SubSeq(name, lastDot(name) + 1, Len(name))

\* The file uploaded has an extension that, lower-cased, is one of the four;
\* the stored font is as the file's name says.
CheckedUpload(file) ==
    LET extension == toLowerCase(ExtensionOf(file.name)) IN
    IF extension \in FontFormats
    THEN /\ res'.status # "UnsupportedFormat"
         /\ res'.status = "ok" =>
               LET stored == fonts'[findIndex(fonts', <<now>>)] IN
               /\ stored.format = extension
               /\ stored.family = spaced(SubSeq(file.name, 1, lastDot(file.name) - 1))
    ELSE /\ res'.status = "UnsupportedFormat"
         /\ fonts' = fonts

\* C28: uploadFont rejects a file whose extension, lower-cased, is none of
\* ttf, otf, woff, woff2 (or that has no extension) with an
\* unsupported-format error, the stored fonts staying as they were, and
\* rejects no other file so; a font it stores has the lower-cased extension
\* as format and the file name without extension, '-' and '_' replaced by
\* spaces, as family.
C28_UploadChecksExtension ==
    [][(ops' = ops + 1 /\ res'.op = "uploadFont" /\ res'.read = "ok") =>
          CheckedUpload(res'.file)]_vars

\* What C28 says of the files whose name has a '.'.
DottedNamesAreChecked ==
    [][(/\ ops' = ops + 1 /\ res'.op = "uploadFont" /\ res'.read = "ok"
        /\ lastDot(res'.file.name) > 0) =>
          CheckedUpload(res'.file)]_vars


(* ------------------------------------------- the external font families *)

\* The googleFonts list in the store, empty while no settings are stored.
StoredGoogleFonts == IF fontSettings = NoValue THEN <<>> ELSE fontSettings.googleFonts

\* C29: after addGoogleFont and removeGoogleFont calls that all succeeded,
\* the stored googleFonts list has no duplicates and holds a family exactly
\* when the last call naming it was an add, and the stored headingFont,
\* bodyFont and accentFont are the ones there were; an addGoogleFont of a
\* family the list holds changes nothing.
C29_AddRemoveKeepASet ==
    /\ [](fontLog.incremental =>
            /\ \A i, j \in 1..Len(StoredGoogleFonts) :
                  StoredGoogleFonts[i] = StoredGoogleFonts[j] => i = j
            /\ \A f \in Families :
                  includes(StoredGoogleFonts, f) <=> fontLog.calls[f] = "add"
            /\ fontSettings # NoValue =>
                  [fontSettings EXCEPT !.googleFonts = <<>>] = DEFAULT_FONT_SETTINGS_VALUE)
    /\ [][(/\ ops' = ops + 1 /\ res'.op = "addGoogleFont"
            /\ fontLog.incremental
            /\ includes(StoredGoogleFonts, fontLog'.family)) =>
              /\ res'.status = "ok"
              /\ fontSettings' = fontSettings]_vars

\* C29: a family was added and removed again and the other family added,
\* every call having succeeded.
C29_Witness ==
    /\ fontLog.incremental
    /\ fontLog.calls["Lora"] = "remove"
    /\ fontLog.calls["Inter"] = "add"
    /\ StoredGoogleFonts = <<"Inter">>
    /\ res = [op |-> "addGoogleFont", status |-> "ok"]


(* --------------------------------------------------- the project summaries *)

\* The slides of a project: one per carousel and position in it.
SlidesOf(p) ==
    {<<c, k>> : c \in 1..Len(p.carousels), k \in 1..2} \cap
    UNION {{<<c, k>> : k \in 1..Len(p.carousels[c].slides)} : c \in 1..Len(p.carousels)}

\* C30: getProjectMetadata returns one entry per persisted project, in the
\* order of the collection, with the project's id, name, createdAt,
\* modifiedAt and description, the number of its carousels as carouselCount
\* and the number of slides over its carousels as slideCount; and it writes
\* nothing to storage.
C30_MetadataSummarizesProjects ==
    /\ [](res.op = "getProjectMetadata" =>
            /\ Len(res.value) = Len(projects)
            /\ \A i \in 1..Len(projects) :
                  LET p == projects[i]
                      m == res.value[i]
                  IN /\ DOMAIN m = {"id", "name", "createdAt", "modifiedAt",
                                    "description", "carouselCount", "slideCount"}
                     /\ m.id = p.id /\ m.name = p.name
                     /\ m.createdAt = p.createdAt /\ m.modifiedAt = p.modifiedAt
                     /\ ("description" \in DOMAIN p => m.description = p.description)
                     /\ ("description" \notin DOMAIN p => m.description = NoValue)
                     /\ m.carouselCount = Len(p.carousels)
                     /\ m.slideCount = Cardinality(SlidesOf(p)))
    /\ [][(ops' = ops + 1 /\ res'.op = "getProjectMetadata") => Store' = Store]_vars

\* C30: the summaries of two projects were read, one project without
\* carousels and one with a carousel of two slides.
C30_Witness ==
    /\ res.op = "getProjectMetadata"
    /\ Len(res.value) = 2
    /\ res.value[1].carouselCount = 0 /\ res.value[1].slideCount = 0
    /\ res.value[2].carouselCount = 1 /\ res.value[2].slideCount = 2


(* ------------------------------------------------- the storage accessor *)

\* C31: between two resetStorageProvider calls every getStorage call returns
\* the same provider object, which is the module's storageProvider; its
\* backend is the one the first of these calls chose, the filesystem backend
\* if the bridge was present at that call and the capacity-constrained
\* backend otherwise, whatever the bridge is at the later calls.
C31_AccessorIsMemoized ==
    \A i \in 1..Len(got) :
        /\ got[i].value = got[1].value
        /\ got[i].value = storageProvider
        /\ got[1].value.class = IF got[1].bridge THEN "FileSystemProvider"
                                 ELSE "LocalStorageProvider"

\* C31: two getStorage calls since the last reset, the bridge absent at the
\* first and present at the second, after an earlier reset.
C31_Witness ==
    /\ Len(got) >= 2
    /\ ~got[1].bridge /\ got[2].bridge
    /\ created >= 2


(* ------------------------------------------------- the metadata mapping *)

\* The mapping entry v of a document locates its field of the slide: an
\* element of the document has the identifier the entry names and carries the
\* field, as its text if the entry names no attribute and as its fill if the
\* entry names the attribute fill.
Locates(v, slide, document) ==
    \E k \in 1..Len(document.layoutContent) :
        LET el == document.layoutContent[k] IN
        /\ el.id = v.element
        /\ IF v.attr = "" THEN el.text = escapeXml(slide[v.name])
           ELSE el.fill = slide[v.name]

\* C32: in a document encoded with its metadata from a slide of a built-in
\* variant, every mapping entry whose field has a non-empty value names the
\* identifier of an element of that document which carries the field.
C32_MappingLocatesFields ==
    (codec.op = "slideToSvg" /\ codec.in.includeMetadata
        /\ codec.in.slide.layout_type \in BuiltIn) =>
        \A k \in 1..Len(codec.out.metadata.variables) :
            LET v == codec.out.metadata.variables[k] IN
            codec.in.slide[v.name] # <<>> => Locates(v, codec.in.slide, codec.out)

\* The entries that do locate their field: the background colour in every
\* variant, and the title in the three variants that draw it as title-text.
MappingLocatesBackgroundAndTitle ==
    (codec.op = "slideToSvg" /\ codec.in.includeMetadata
        /\ codec.in.slide.layout_type \in BuiltIn) =>
        \A k \in 1..Len(codec.out.metadata.variables) :
            LET v == codec.out.metadata.variables[k]
                slide == codec.in.slide
            IN (/\ slide[v.name] # <<>>
                /\ \/ v.name = "background_color"
                   \/ /\ v.name = "title"
                      /\ slide.layout_type \in {<<"dictionary_entry">>, <<"header_body">>,
                                                 <<"minimalist_focus">>})
               => Locates(v, slide, codec.out)


(* ------------------------------------- the Autosave Controller, continued *)

\* C33: whenever the mounted, enabled controller shows 'saved' with
\* hasUnsavedChanges false and no storage call outstanding, the content last
\* persisted is the current project.
C33_SavedMeansPersisted ==
    (/\ mounted /\ enabled /\ project # NoProject
     /\ saveStatus = "saved" /\ ~hasUnsavedChanges
     /\ calls = <<>>)
        => persisted = project


\* C34: a step of the controller issues a storage.saveProject call only if it
\* is the expiry of the debounce timer, a saveNow request or the teardown;
\* in particular the step in which a save completes issues none.
C34_SavesOnlyOnTriggers ==
    last.issued > 0 => last.op \in {"timer", "saveNow", "unmount"}


\* C35: right after mounting with a project already loaded the controller
\* shows 'saved', hasUnsavedChanges is false, no debounce timer is armed and
\* no save has been issued.
C35_InitialRenderIsSkipped ==
    (last.op = "mount" /\ project # NoProject) =>
        /\ saveStatus = "saved"
        /\ ~hasUnsavedChanges
        /\ ~timerPending
        /\ calls = <<>>

\* With auto-save off before and after a step, markChanged and a change of
\* the project leave saveStatus, hasUnsavedChanges and the timer alone.
DisabledEdit ==
    (~enabled /\ ~enabled' /\ last'.op \in {"markChanged", "edit"}) =>
        /\ saveStatus' = saveStatus
        /\ hasUnsavedChanges' = hasUnsavedChanges
        /\ timerPending' = timerPending
        /\ last'.issued = 0

\* With auto-save off, saveNow with a project loaded and no save in flight
\* issues a saveProject call for the current project.
DisabledSaveNow ==
    (~enabled /\ last'.op = "saveNow" /\ project # NoProject /\ ~isSavingRef) =>
        (last'.issued = 1 /\ IssuedVer = project)

\* With auto-save off, the expiry of a debounce timer starts no call.
DisabledTimer ==
    (~enabled /\ last'.op = "timer") => last'.issued = 0

\* C36: while enabled is false markChanged and project changes have no
\* effect, no debounce-triggered saveProject call starts (also not from a
\* timer armed before auto-save was disabled), and saveNow still saves the
\* current project.
C36_DisabledMeansOff ==
    [][DisabledEdit /\ DisabledTimer /\ DisabledSaveNow]_vars

\* What does hold while enabled is false: edits have no effect and saveNow
\* saves.
DisabledEditsAndSaveNow ==
    [][DisabledEdit /\ DisabledSaveNow]_vars


(* ------------------------------------------------ the creating operations *)

\* The ids of the entries of a collection.
IdsOf(collection) == {collection[i].id : i \in 1..Len(collection)}

\* The step took `before` to `after` by adding one entry, at the end, whose
\* id no entry of `before` has.
AddsOne(before, after) ==
    /\ Len(after) = Len(before) + 1
    /\ after[Len(after)].id \notin IdsOf(before)

\* A call of the creating operation `op` has just returned successfully.
Created(op) == ops' = ops + 1 /\ res'.op = op /\ res'.status = "ok"

\* C37: every successful createNewProject, duplicateProject and uploadFont
\* assigns an id that no entry of its collection has and makes the
\* collection one entry longer, also within one clock tick.
C37_CreationNeverReplaces ==
    [][/\ Created("createNewProject") => AddsOne(projects, projects')
       /\ Created("duplicateProject") => AddsOne(projects, projects')
       /\ Created("uploadFont") => AddsOne(fonts, fonts')]_vars

\* What does hold: a creating call that no other creating call precedes
\* within the same clock tick adds one entry with a new id.
CreationInItsOwnTickAddsOne ==
    [][(\A i \in 1..Len(projects) : projects[i].modifiedAt # now)
        /\ (\A i \in 1..Len(fonts) : fonts[i].uploadedAt # now)
        => /\ Created("createNewProject") => AddsOne(projects, projects')
           /\ Created("duplicateProject") => AddsOne(projects, projects')
           /\ Created("uploadFont") => AddsOne(fonts, fonts')]_vars


(* ------------------------------------------------------ deleting a project *)

\* The projects other than the one with the id, in their order.
Others(id) == SelectSeq(projects, LAMBDA p : p.id # id)

\* The store after a deleteProject(id) that starts now, and how it ends.
Deleted(id) == deleteProject(Store, id)

RecentPaths == [i \in 1..Len(recentFile.content) |-> recentFile.content[i].path]

\* The list has no duplicate path and at most RecentCap entries.
RecentIsBoundedAndDistinct ==
    /\ Len(RecentPaths) <= RecentCap
    /\ \A i, j \in 1..Len(RecentPaths) : RecentPaths[i] = RecentPaths[j] => i = j

\* Both concurrent requests have returned.
BothReturned == \A r \in Concurrent : recentAdds.at[r] = "returned"

\* C39: after two recent:add requests for distinct paths have both
\* completed, however their reads and writes interleaved, the list holds
\* both paths, has no duplicate path and has at most 10 entries.
C39_ConcurrentAddsKeepBoth ==
    BothReturned =>
        /\ \A r \in Concurrent : \E i \in 1..Len(RecentPaths) : RecentPaths[i] = PathOf(r)
        /\ RecentIsBoundedAndDistinct

\* What does hold: the list is distinct and bounded however the requests
\* interleave, and it holds both paths if neither request started while the
\* other was in progress.
SequentialAddsKeepBoth ==
    /\ RecentIsBoundedAndDistinct
    /\ (BothReturned /\ ~recentAdds.overlapped) =>
          \A r \in Concurrent : \E i \in 1..Len(RecentPaths) : RecentPaths[i] = PathOf(r)

====
